---- MODULE Spec2Model ----
(***************************************************************************)
(* TrendRadar report renderer (mcp_server/tools/deepseek_client.py).       *)
(*                                                                         *)
(* Two machines are modelled:                                              *)
(*   - md_to_html, the line-oriented Markdown parser (Python, lines        *)
(*     180-264): one step per input line, then the final flush;            *)
(*   - the DOMContentLoaded card-ification script (JavaScript embedded in  *)
(*     the page template, lines 335-504): one step per scan.               *)
(* Beside them, send_md_to_notifications (lines 515-563), one step per     *)
(* channel, call_deepseek (lines 73-92), one step per statement that can   *)
(* leave the function, and load_deepseek_api_key (lines 15-48), one step   *)
(* per source it reads.  main of test/ai_deepseek_analysis.py (lines       *)
(* 160-197) runs the copies of the last two that its own file holds, which *)
(* read line for line as the ones above: one step per statement of main    *)
(* that can end it, around the steps of the two functions.                 *)
(*                                                                         *)
(* Text is a sequence of characters.  In the parser a character is one of  *)
(* "#", " ", "|", "-", "*" or a letter.  In the card script the labels the *)
(* script tests for are single symbols, written in ASCII:                  *)
(*   "Title" 标题   "Reason" 原因   "Urgency" 紧迫度  "Confidence" 置信度  *)
(*   "Suggest" 执行建议   "Colon" ：(full-width)   "Priority" 优先级       *)
(*   "Review" 大盘复盘    "Trend" 趋势   "Mood" 情绪   "Style" 风格        *)
(* and every other symbol stands for ordinary text.  Neither the parser    *)
(* nor the script escapes text; texts here hold no HTML markup.            *)
(***************************************************************************)
EXTENDS Integers, Sequences, FiniteSets, TLC

VARIABLES
    \* ---- md_to_html (lines 180-264)
    lines,        \* md.splitlines()
    ln,           \* index of the line the for loop takes next
    out,          \* emitted blocks (one record per <h3>/<h4>/<ul>/<table>/<hr>/<p>)
    out_src,      \* ghost: for each block of out, the line numbers it was built from
    in_list, list_items, list_src,
    in_table, table_lines, table_src,
    mpc,          \* "idle" | "loop" | "done"
    \* ---- card-ification script (lines 335-504)
    dom,          \* children of div.markdown, in document order
    dom0,         \* ghost: the document before the script ran
    domPrev,      \* ghost: the document before the scan that ran last
    cpc,          \* "idle" | the scan to run next | "done"
    \* ---- send_md_to_notifications (lines 515-563)
    config,       \* for each configuration key: "absent" | "empty" | "set"
    proxy_url,    \* "none" | "set"
    results,      \* the dict being filled, as key/value entries in insertion order
    attempts,     \* ghost: the requests.post calls made so far, in order
    npc,          \* "idle" | the channel to handle next | "returned"
    \* ---- call_deepseek (lines 73-92)
    call_args,    \* api_key and messages
    sent,         \* ghost: the requests made so far, in order
    resp,         \* the response of requests.post, once there is one
    answer,       \* the value returned or the exception raised
    dpc,          \* "idle" | "post" | "status" | "json" | "extract" | "returned" | "raised"
    \* ---- load_deepseek_api_key (lines 15-48)
    env_file,     \* the file at env_path: whether it exists, can be read, its lines
    environ,      \* os.environ, at the two candidate names
    api_key,      \* the local variable: None or a str
    kpc,          \* "idle" | "file" | "environ" | "check" | "returned" | "raised"
    \* ---- main (test/ai_deepseek_analysis.py, lines 160-197)
    override,            \* TEXT_TO_ANALYZE_OVERRIDE
    target_file,         \* the file at TARGET_FILE_PATH: whether it exists, its text
    target_line_number,  \* TARGET_LINE_NUMBER: None or an int
    text_to_analyze,     \* the local variable, once it is bound
    out_file,            \* what the output file holds, once it is written
    apc                  \* "idle" | "load" | "call" | "done" | "raised"

mvars == <<lines, ln, out, out_src, in_list, list_items, list_src,
           in_table, table_lines, table_src, mpc>>
cvars == <<dom, dom0, domPrev, cpc>>
nvars == <<config, proxy_url, results, attempts, npc>>
dvars == <<call_args, sent, resp, answer, dpc>>
kvars == <<env_file, environ, api_key, kpc>>
avars == <<override, target_file, target_line_number, text_to_analyze, out_file, apc>>
tvars == <<nvars, dvars, kvars, avars>>
vars == <<mvars, cvars, tvars>>

-----------------------------------------------------------------------------
(* Bounds *)

MaxLines == 4
MaxNodes == 4
MaxTitleLen == 3
MaxRows == 2
MaxLineLen == 6
MaxItemNodes == 4
MaxContentLen == 2
MaxEnvLines == 2

-----------------------------------------------------------------------------
(* The Python functions beside the renderer, before they are called *)

ConfigKeys ==
    {"FEISHU_WEBHOOK_URL", "DINGTALK_WEBHOOK_URL", "WEWORK_WEBHOOK_URL",
     "TELEGRAM_BOT_TOKEN", "TELEGRAM_CHAT_ID"}

NotifyIdle ==
    /\ config = [k \in ConfigKeys |-> "absent"]
    /\ proxy_url = "none"
    /\ results = <<>> /\ attempts = <<>>
    /\ npc = "idle"

NoValue == [none |-> TRUE]

DeepseekIdle ==
    /\ call_args = NoValue /\ sent = <<>>
    /\ resp = NoValue /\ answer = NoValue
    /\ dpc = "idle"

LoadKeyIdle ==
    /\ env_file = NoValue /\ environ = NoValue /\ api_key = NoValue
    /\ kpc = "idle"

MainIdle ==
    /\ override = NoValue /\ target_file = NoValue /\ target_line_number = NoValue
    /\ text_to_analyze = NoValue /\ out_file = NoValue
    /\ apc = "idle"

ToolsIdle == NotifyIdle /\ DeepseekIdle /\ LoadKeyIdle /\ MainIdle

-----------------------------------------------------------------------------
(* Sequence helpers *)

RECURSIVE Flatten(_)
Flatten(ss) == IF ss = <<>> THEN <<>> ELSE Head(ss) \o Flatten(Tail(ss))

SeqsUpTo(S, n) == UNION {[1..k -> S] : k \in 0..n}

DropN(s, n) == SubSeq(s, n + 1, Len(s))

StartsWith(s, p) == Len(s) >= Len(p) /\ SubSeq(s, 1, Len(p)) = p

Count(s, P(_)) == Cardinality({i \in 1..Len(s) : P(s[i])})

-----------------------------------------------------------------------------
(* Python string methods used by md_to_html *)

IsSpace(c) == c = " "

RECURSIVE LStrip(_)
LStrip(s) == IF s # <<>> /\ IsSpace(Head(s)) THEN LStrip(Tail(s)) ELSE s

RECURSIVE RStrip(_)
RStrip(s) ==
    IF s # <<>> /\ IsSpace(s[Len(s)]) THEN RStrip(SubSeq(s, 1, Len(s) - 1)) ELSE s

\* str.strip()
Strip(s) == LStrip(RStrip(s))

RECURSIVE LStripPipes(_)
LStripPipes(s) == IF s # <<>> /\ Head(s) = "|" THEN LStripPipes(Tail(s)) ELSE s

RECURSIVE RStripPipes(_)
RStripPipes(s) ==
    IF s # <<>> /\ s[Len(s)] = "|" THEN RStripPipes(SubSeq(s, 1, Len(s) - 1)) ELSE s

\* str.strip("|"): every leading and every trailing "|" goes
StripPipes(s) == LStripPipes(RStripPipes(s))

\* str.replace("**", ""): non-overlapping occurrences, left to right
RECURSIVE RemoveBold(_)
RemoveBold(s) ==
    IF Len(s) < 2 THEN s
    ELSE IF s[1] = "*" /\ s[2] = "*" THEN RemoveBold(DropN(s, 2))
    ELSE <<s[1]>> \o RemoveBold(Tail(s))

\* split on a one-character separator: always at least one field
RECURSIVE Split(_, _)
Split(s, sep) ==
    IF \A i \in 1..Len(s) : s[i] # sep THEN <<s>>
    ELSE LET k == CHOOSE i \in 1..Len(s) :
                      s[i] = sep /\ \A j \in 1..(i - 1) : s[j] # sep
         IN  <<SubSeq(s, 1, k - 1)>> \o Split(DropN(s, k), sep)

\* str.split("|")
SplitPipes(s) == Split(s, "|")

\* re.fullmatch(r"-+", c)
IsDashes(c) == c # <<>> /\ \A i \in 1..Len(c) : c[i] = "-"

-----------------------------------------------------------------------------
(* md_to_html: line classification, in the order the loop body tests *)

H3Prefix == <<"#", "#", "#", " ">>
H4Prefix == <<"#", "#", "#", "#", " ">>
ListPrefix == <<"-", " ">>
RuleLine == <<"-", "-", "-">>

\* stripped = raw.rstrip().strip()
Stripped(raw) == Strip(RStrip(raw))

\* LineKind with a seeded fault: the h3 test leaves out the blank after ###
LineKind_H3WithoutBlank(raw) ==
    LET s == Stripped(raw) IN
    IF StartsWith(s, <<"#", "#", "#">>) THEN "h3"
    ELSE IF StartsWith(s, H4Prefix) THEN "h4"
    ELSE IF StartsWith(s, <<"|">>) THEN "table"
    ELSE IF s = RuleLine THEN "rule"
    ELSE IF StartsWith(s, ListPrefix) THEN "list"
    ELSE IF s # <<>> THEN "para"
    ELSE "blank"

LineKind(raw) ==
    LET s == Stripped(raw) IN
    IF StartsWith(s, H3Prefix) THEN "h3"
    ELSE IF StartsWith(s, H4Prefix) THEN "h4"
    ELSE IF StartsWith(s, <<"|">>) THEN "table"
    ELSE IF s = RuleLine THEN "rule"
    ELSE IF StartsWith(s, ListPrefix) THEN "list"
    ELSE IF s # <<>> THEN "para"
    ELSE "blank"

-----------------------------------------------------------------------------
(* md_to_html: the local state and the two nested flush functions *)

Frame ==
    [out |-> out, src |-> out_src,
     in_list |-> in_list, list_items |-> list_items, list_src |-> list_src,
     in_table |-> in_table, table_lines |-> table_lines, table_src |-> table_src]

flush_list(f) ==
    [f EXCEPT
        !.out = IF f.in_list /\ f.list_items # <<>>
                THEN Append(@, [tag |-> "UL", items |-> f.list_items]) ELSE @,
        !.src = IF f.in_list /\ f.list_items # <<>>
                THEN Append(@, f.list_src) ELSE @,
        !.in_list = FALSE, !.list_items = <<>>, !.list_src = <<>>]

\* row = [c.strip() for c in tline.strip().strip("|").split("|")]
TableRow(tline) ==
    LET cells == SplitPipes(StripPipes(Strip(tline)))
    IN  [i \in 1..Len(cells) |-> Strip(cells[i])]

IsSeparatorRow(row) == \A i \in 1..Len(row) : IsDashes(row[i]) \/ row[i] = <<>>

\* TableBlock with a seeded fault: the second row is dropped whatever it holds
TableBlock_DropsSecondRow(tlines) ==
    LET rows == [i \in 1..Len(tlines) |-> TableRow(tlines[i])]
        body_rows == Tail(rows)
    IN  [tag |-> "TABLE", header |-> rows[1],
         rows |-> IF body_rows # <<>> THEN Tail(body_rows) ELSE body_rows]

TableBlock(tlines) ==
    LET rows == [i \in 1..Len(tlines) |-> TableRow(tlines[i])]
        body_rows == Tail(rows)
    IN  [tag |-> "TABLE", header |-> rows[1],
         rows |-> IF body_rows # <<>> /\ IsSeparatorRow(body_rows[1])
                  THEN Tail(body_rows) ELSE body_rows]

flush_table(f) ==
    [f EXCEPT
        !.out = IF f.in_table /\ f.table_lines # <<>>
                THEN Append(@, TableBlock(f.table_lines)) ELSE @,
        !.src = IF f.in_table /\ f.table_lines # <<>>
                THEN Append(@, f.table_src) ELSE @,
        !.in_table = FALSE, !.table_lines = <<>>, !.table_src = <<>>]

Emit(f, block, n) ==
    [f EXCEPT !.out = Append(@, block), !.src = Append(@, <<n>>)]

\* the loop body ends (continue or fall off the end): the locals are stored
\* and the for loop moves to the next line
Commit(f) ==
    /\ out' = f.out
    /\ out_src' = f.src
    /\ in_list' = f.in_list
    /\ list_items' = f.list_items
    /\ list_src' = f.list_src
    /\ in_table' = f.in_table
    /\ table_lines' = f.table_lines
    /\ table_src' = f.table_src
    /\ ln' = ln + 1
    /\ UNCHANGED <<lines, mpc>>
    /\ UNCHANGED <<cvars, tvars>>

AtLine(kind) == mpc = "loop" /\ ln <= Len(lines) /\ LineKind(lines[ln]) = kind

\* else: if in_table: flush_table()     (lines 238-240)
CloseTable(f) == IF f.in_table THEN flush_table(f) ELSE f

-----------------------------------------------------------------------------
(* md_to_html: one action per branch of the loop body *)

LineH3 ==
    /\ AtLine("h3")
    /\ Commit(Emit(flush_table(flush_list(Frame)),
                   [tag |-> "H3", text |-> Strip(DropN(Stripped(lines[ln]), 4))], ln))

LineH4 ==
    /\ AtLine("h4")
    /\ Commit(Emit(flush_table(flush_list(Frame)),
                   [tag |-> "H4", text |-> Strip(DropN(Stripped(lines[ln]), 5))], ln))

\* LineTable with a seeded fault: the pending list is not flushed
LineTable_KeepsList ==
    /\ AtLine("table")
    /\ Commit([Frame EXCEPT !.in_table = TRUE,
                            !.table_lines = Append(@, Stripped(lines[ln])),
                            !.table_src = Append(@, ln)])

LineTable ==
    /\ AtLine("table")
    /\ LET f == flush_list(Frame)
       IN  Commit([f EXCEPT !.in_table = TRUE,
                            !.table_lines = Append(@, Stripped(lines[ln])),
                            !.table_src = Append(@, ln)])

LineRule ==
    /\ AtLine("rule")
    /\ Commit(Emit(flush_list(CloseTable(Frame)), [tag |-> "HR"], ln))

\* LineList with a seeded fault: the pending table is not flushed
LineList_KeepsTable ==
    /\ AtLine("list")
    /\ Commit([Frame EXCEPT !.in_list = TRUE,
                            !.list_items =
                                Append(@, Strip(RemoveBold(DropN(Stripped(lines[ln]), 2)))),
                            !.list_src = Append(@, ln)])

LineList ==
    /\ AtLine("list")
    /\ LET f == CloseTable(Frame)
       IN  Commit([f EXCEPT !.in_list = TRUE,
                            !.list_items =
                                Append(@, Strip(RemoveBold(DropN(Stripped(lines[ln]), 2)))),
                            !.list_src = Append(@, ln)])

LinePara ==
    /\ AtLine("para")
    /\ Commit(Emit(flush_list(CloseTable(Frame)),
                   [tag |-> "P", text |-> RemoveBold(Stripped(lines[ln]))], ln))

\* a blank line falls through every test: the else branches at 238-240 and
\* 255-256 still run, the final "if stripped" does not
\* LineBlank with a seeded fault: a blank line leaves the list (the table) open
LineBlank_KeepsList ==
    /\ AtLine("blank")
    /\ Commit(CloseTable(Frame))

LineBlank_KeepsTable ==
    /\ AtLine("blank")
    /\ Commit(flush_list(Frame))

LineBlank ==
    /\ AtLine("blank")
    /\ Commit(flush_list(CloseTable(Frame)))

\* flush_list(); flush_table(); return   (lines 263-264)
EndOfInput ==
    /\ mpc = "loop" /\ ln > Len(lines)
    /\ LET f == flush_table(flush_list(Frame))
       IN  /\ out' = f.out
           /\ out_src' = f.src
           /\ in_list' = f.in_list
           /\ list_items' = f.list_items
           /\ list_src' = f.list_src
           /\ in_table' = f.in_table
           /\ table_lines' = f.table_lines
           /\ table_src' = f.table_src
    /\ mpc' = "done"
    /\ UNCHANGED <<lines, ln>>
    /\ UNCHANGED <<cvars, tvars>>

-----------------------------------------------------------------------------
(* md_to_html: inputs *)

\* lines of each kind the loop distinguishes, with the markup the parser
\* strips (leading blanks, bold markers, border pipes)
LinePool ==
    { <<"#", "#", "#", " ", "a">>,
      <<"#", "#", "#", "#", " ", "a">>,
      <<"|", "a", "|", "b", "|">>,
      <<"|", "-", "|", "-", "|">>,
      <<"|", " ", "|", "-", "|">>,
      <<"-", "-", "-">>,
      <<"-", " ", "a">>,
      <<" ", "-", " ", "*", "*", "b", "*", "*">>,
      <<"a", " ", "*", "*", "b">>,
      <<>>,
      <<" ">> }

CardIdle ==
    /\ dom = <<>> /\ dom0 = <<>> /\ domPrev = <<>>
    /\ cpc = "idle"

InitParse ==
    /\ lines \in SeqsUpTo(LinePool, MaxLines)
    /\ ln = 1
    /\ out = <<>> /\ out_src = <<>>
    /\ in_list = FALSE /\ list_items = <<>> /\ list_src = <<>>
    /\ in_table = FALSE /\ table_lines = <<>> /\ table_src = <<>>
    /\ mpc = "loop"
    /\ CardIdle
    /\ ToolsIdle

NextParse ==
    \/ LineH3 \/ LineH4 \/ LineTable \/ LineRule \/ LineList
    \/ LinePara \/ LineBlank \/ EndOfInput

SpecParse == InitParse /\ [][NextParse]_vars

-----------------------------------------------------------------------------
(* md_to_html: every one-line input over the characters the parser tests *)

LineChars == {"#", " ", "|", "-", "a"}

InitLine ==
    /\ lines \in {<<raw>> : raw \in SeqsUpTo(LineChars, MaxLineLen)}
    /\ ln = 1
    /\ out = <<>> /\ out_src = <<>>
    /\ in_list = FALSE /\ list_items = <<>> /\ list_src = <<>>
    /\ in_table = FALSE /\ table_lines = <<>> /\ table_src = <<>>
    /\ mpc = "loop"
    /\ CardIdle
    /\ ToolsIdle

SpecLine == InitLine /\ [][NextParse]_vars

-----------------------------------------------------------------------------
(* Card-ification script: JavaScript string helpers *)

\* String.prototype.trim()
Trim(t) == Strip(t)

\* /^label/.test(t), a label being one symbol
HasPrefix(t, label) == t # <<>> /\ Head(t) = label

\* /word/.test(t)
Contains(t, word) == \E i \in 1..Len(t) : t[i] = word

\* t.replace(/^label\s*：?/, '') for a text t that starts with the label
AfterLabel(t) ==
    LET r == LStrip(Tail(t))
    IN  IF r # <<>> /\ Head(r) = "Colon" THEN Tail(r) ELSE r

\* t.replace(/^label\s*：?/, '').trim()
ValueByReplace(t) == Trim(AfterLabel(t))

\* t.split('：')[1]?.trim() || t.replace(/^label\s*：?/, '').trim()
ValueBySplit(t) ==
    LET parts == Split(t, "Colon")
        second == IF Len(parts) >= 2 THEN Trim(parts[2]) ELSE <<>>
    IN  IF second # <<>> THEN second ELSE ValueByReplace(t)

\* a || b on strings (the empty string and undefined are falsy)
Or(a, b) == IF a # <<>> THEN a ELSE b

\* text.replace(/：$/, '')
DropFinalColon(t) ==
    IF t # <<>> /\ t[Len(t)] = "Colon" THEN SubSeq(t, 1, Len(t) - 1) ELSE t

-----------------------------------------------------------------------------
(* Card-ification script: the nodes it builds *)

Dash == <<"-">>              \* '-'
KeyItem == <<"KeyItem">>     \* '重点事项'
EvtDefault == <<"Evt">>      \* '事件'

\* <div class="card"> with, in this order: the card-title, the two-column
\* meta grid (none or two items), the "label：value" line (none or one), the
\* sub-titled single-entry lists, and the list or paragraph copied in whole
Card(title, meta, note, lists, body) ==
    [tag |-> "DIV", class |-> "card", title |-> title,
     meta |-> meta, note |-> note, lists |-> lists, body |-> body]

Labeled(label, value) == [label |-> label, value |-> value]

\* <div class="section"> holding cards
Section(cards) == [tag |-> "DIV", class |-> "section", kids |-> cards]

\* ul.outerHTML.replace('<ul', '<ul class="list"')
ListCopy(ul) == [tag |-> "UL", class |-> "list", items |-> ul.items]

\* the card of a priority item (lines 354-363 and 439-449)
PriorityCard(title, reason, urgency, confidence, suggest) ==
    Card(Or(title, KeyItem),
         <<Labeled("Urgency", Or(urgency, Dash)),
           Labeled("Confidence", Or(confidence, Dash))>>,
         IF reason # <<>> THEN <<Labeled("Reason", reason)>> ELSE <<>>,
         IF suggest # <<>> THEN <<Labeled("Suggest", <<suggest>>)>> ELSE <<>>,
         <<>>)

IsTag(n, tag) == n.tag = tag

\* replace d[i] and d[i+1] by one node (ul.replaceWith(card); p.remove())
ReplacePair(d, i, node) ==
    SubSeq(d, 1, i - 1) \o <<node>> \o SubSeq(d, i + 2, Len(d))

-----------------------------------------------------------------------------
(* Scan 1 (lines 339-367): priority-label paragraph followed by a list *)

\* '高优先级事项：', '中优先级事项：', '低优先级事项：'
priorityLabels ==
    { <<"HighPriItems", "Colon">>, <<"MidPriItems", "Colon">>,
      <<"LowPriItems", "Colon">> }

\* items.forEach(t => { if (t.startsWith(label)) field = ... }): the last
\* entry with the label decides
RECURSIVE FieldOfItems(_, _)
FieldOfItems(items, label) ==
    IF items = <<>> THEN <<>>
    ELSE LET t == Trim(items[Len(items)])
         IN  IF HasPrefix(t, label) THEN ValueBySplit(t)
             ELSE FieldOfItems(SubSeq(items, 1, Len(items) - 1), label)

LabelCard(ul) ==
    PriorityCard(FieldOfItems(ul.items, "Title"), FieldOfItems(ul.items, "Reason"),
                 FieldOfItems(ul.items, "Urgency"), FieldOfItems(ul.items, "Confidence"),
                 FieldOfItems(ul.items, "Suggest"))

\* Array.from(md.querySelectorAll('p')).forEach(...): the paragraphs in
\* document order.  A paragraph is replaced only together with the list after
\* it, so the walk by position visits the same paragraphs as the snapshot.
\* (A <p> inside a card is the card's last child: its nextElementSibling is
\* null and the scan leaves it alone.)
RECURSIVE LabelWalk(_, _)
LabelWalk(d, i) ==
    IF i > Len(d) THEN d
    ELSE IF /\ IsTag(d[i], "P") /\ Trim(d[i].text) \in priorityLabels
            /\ i < Len(d) /\ IsTag(d[i + 1], "UL")
         THEN LabelWalk(ReplacePair(d, i, LabelCard(d[i + 1])), i + 1)
         ELSE LabelWalk(d, i + 1)

LabelScan(d) == LabelWalk(d, 1)

-----------------------------------------------------------------------------
(* Scan 2 (lines 368-381): thematic section title followed by a list *)

\* '宏观层面：','行业层面：','个股层面：','布局建议：','主要风险：','对冲建议：',
\* '宏观影响：','行业影响：','个股影响：'
cardSectionTitles ==
    { <<"MacroLevel", "Colon">>, <<"IndustryLevel", "Colon">>,
      <<"StockLevel", "Colon">>, <<"Positioning", "Colon">>,
      <<"MainRisk", "Colon">>, <<"Hedging", "Colon">>,
      <<"MacroImpact", "Colon">>, <<"IndustryImpact", "Colon">>,
      <<"StockImpact", "Colon">> }

\* ThematicCard with a seeded fault: the title keeps the label's colon
ThematicCard_KeepsColon(text, ul) ==
    Card(text, <<>>, <<>>, <<>>, <<ListCopy(ul)>>)

ThematicCard(text, ul) ==
    Card(DropFinalColon(text), <<>>, <<>>, <<>>, <<ListCopy(ul)>>)

RECURSIVE ThematicWalk(_, _)
ThematicWalk(d, i) ==
    IF i > Len(d) THEN d
    ELSE IF /\ IsTag(d[i], "P") /\ Trim(d[i].text) \in cardSectionTitles
            /\ i < Len(d) /\ IsTag(d[i + 1], "UL")
         THEN ThematicWalk(ReplacePair(d, i, ThematicCard(Trim(d[i].text), d[i + 1])),
                           i + 1)
         ELSE ThematicWalk(d, i + 1)

ThematicScan(d) == ThematicWalk(d, 1)

-----------------------------------------------------------------------------
(* Scan 3 (lines 382-413): the first table becomes one card per body row *)

\* cells[i] || ''  (i counted from 0 in the script, from 1 here)
CellAt(cells, i) == IF i <= Len(cells) THEN cells[i] ELSE <<>>

\* const map = {}; headers.forEach((h,i) => map[h] = cells[i] || ''); map[key]
\* a later column with the same header overwrites an earlier one; a key that
\* is no header reads undefined
MapGet(headers, cells, key) ==
    LET cols == {i \in 1..Len(headers) : headers[i] = key}
    IN  IF cols = {} THEN <<>>
        ELSE CellAt(cells, CHOOSE i \in cols : \A j \in cols : j <= i)

EventFields(headers, cells) ==
    LET map(key) == MapGet(headers, cells, <<key>>) IN
    [evt    |-> Or(map("Evt"), Or(map("EvtName"), Or(CellAt(cells, 1), EvtDefault))),
     date   |-> Or(map("Date"), Or(map("DateWindow"),
                   Or(map("TimeWindow"), Or(CellAt(cells, 2), <<>>)))),
     view   |-> Or(map("View"), Or(map("ViewAhead"), Or(CellAt(cells, 3), <<>>))),
     effect |-> Or(map("Effect"), Or(map("MarketEffect"), Or(CellAt(cells, 4), <<>>))),
     sector |-> Or(map("Sector"), Or(CellAt(cells, 5), <<>>)),
     adv    |-> Or(map("Advice"), Or(map("AdviceHedge"), Or(CellAt(cells, 6), <<>>)))]

\* EventCard with a seeded fault: the two meta items show each other's value
EventCard_SwappedMeta(headers, cells) ==
    LET f == EventFields(headers, cells) IN
    Card(f.evt,
         <<Labeled("Date", Or(f.effect, Dash)), Labeled("Effect", Or(f.date, Dash))>>,
         IF f.view # <<>> THEN <<Labeled("ViewAhead", f.view)>> ELSE <<>>,
         (IF f.sector # <<>> THEN <<Labeled("Sector", <<f.sector>>)>> ELSE <<>>)
            \o (IF f.adv # <<>> THEN <<Labeled("Advice", <<f.adv>>)>> ELSE <<>>),
         <<>>)

EventCard(headers, cells) ==
    LET f == EventFields(headers, cells) IN
    Card(f.evt,
         <<Labeled("Date", Or(f.date, Dash)), Labeled("Effect", Or(f.effect, Dash))>>,
         IF f.view # <<>> THEN <<Labeled("ViewAhead", f.view)>> ELSE <<>>,
         (IF f.sector # <<>> THEN <<Labeled("Sector", <<f.sector>>)>> ELSE <<>>)
            \o (IF f.adv # <<>> THEN <<Labeled("Advice", <<f.adv>>)>> ELSE <<>>),
         <<>>)

Tables(d) == {i \in 1..Len(d) : IsTag(d[i], "TABLE")}

First(S) == CHOOSE i \in S : \A j \in S : i <= j

\* TableScan with a seeded fault: md.querySelectorAll('table').forEach(...)
TableScan_EveryTable(d) ==
    [i \in 1..Len(d) |->
        IF IsTag(d[i], "TABLE")
        THEN LET headers == [c \in 1..Len(d[i].header) |-> Trim(d[i].header[c])]
             IN  Section([r \in 1..Len(d[i].rows) |->
                            EventCard(headers,
                                      [c \in 1..Len(d[i].rows[r]) |->
                                          Trim(d[i].rows[r][c])])])
        ELSE d[i]]

\* md.querySelector('table') ... table.replaceWith(container)
TableScan(d) ==
    IF Tables(d) = {} THEN d
    ELSE LET i == First(Tables(d))
             headers == [c \in 1..Len(d[i].header) |-> Trim(d[i].header[c])]
             cards == [r \in 1..Len(d[i].rows) |->
                          EventCard(headers,
                                    [c \in 1..Len(d[i].rows[r]) |-> Trim(d[i].rows[r][c])])]
         IN  [d EXCEPT ![i] = Section(cards)]

-----------------------------------------------------------------------------
(* Scans 4 and 5: what follows an anchor heading, up to the next h3 *)

\* InsertAndRemove with a seeded fault: parent.appendChild(container)
InsertAndRemove_Appended(d, container, removed) ==
    IF removed = <<>> THEN d
    ELSE Flatten([i \in 1..Len(d) |->
                    IF \E k \in 1..Len(removed) : removed[k] = i
                    THEN <<>> ELSE <<d[i]>>]) \o <<container>>

\* parent.insertBefore(container, removed[0]); removed.forEach(n => n.remove())
InsertAndRemove(d, container, removed) ==
    IF removed = <<>> THEN d
    ELSE Flatten([i \in 1..Len(d) |->
                    (IF i = removed[1] THEN <<container>> ELSE <<>>)
                    \o (IF \E k \in 1..Len(removed) : removed[k] = i
                        THEN <<>> ELSE <<d[i]>>)])

\* Array.from(md.querySelectorAll('h3')).find(h => /word/.test(h.textContent))
Anchors(d, word) == {i \in 1..Len(d) : IsTag(d[i], "H3") /\ Contains(d[i].text, word)}

-----------------------------------------------------------------------------
(* Scan 4 (lines 414-463): items under the h3 that contains 优先级 *)

NoFields == [reason |-> <<>>, urgency |-> <<>>, confidence |-> <<>>, suggest |-> <<>>]

\* PriorityCursor with a seeded fault: the cursor does not stop at a list
RECURSIVE PriorityCursor_PastLists(_, _, _, _)
PriorityCursor_PastLists(d, cursor, f, visited) ==
    IF cursor > Len(d) \/ IsTag(d[cursor], "H3")
    THEN [fields |-> f, cursor |-> cursor, visited |-> visited]
    ELSE LET t == IF IsTag(d[cursor], "P") THEN Trim(d[cursor].text) ELSE <<>>
             g == IF HasPrefix(t, "Reason") THEN [f EXCEPT !.reason = ValueByReplace(t)]
                  ELSE IF HasPrefix(t, "Urgency")
                       THEN [f EXCEPT !.urgency = ValueByReplace(t)]
                  ELSE IF HasPrefix(t, "Confidence")
                       THEN [f EXCEPT !.confidence = ValueByReplace(t)]
                  ELSE IF HasPrefix(t, "Suggest")
                       THEN [f EXCEPT !.suggest = ValueByReplace(t)]
                  ELSE f
         IN  PriorityCursor_PastLists(d, cursor + 1, g, Append(visited, cursor))

\* the inner while loop (lines 428-438): cursor runs to the next UL, H3 or end
RECURSIVE PriorityCursor(_, _, _, _)
PriorityCursor(d, cursor, f, visited) ==
    IF cursor > Len(d) \/ IsTag(d[cursor], "UL") \/ IsTag(d[cursor], "H3")
    THEN [fields |-> f, cursor |-> cursor, visited |-> visited]
    ELSE LET t == IF IsTag(d[cursor], "P") THEN Trim(d[cursor].text) ELSE <<>>
             g == IF HasPrefix(t, "Reason") THEN [f EXCEPT !.reason = ValueByReplace(t)]
                  ELSE IF HasPrefix(t, "Urgency")
                       THEN [f EXCEPT !.urgency = ValueByReplace(t)]
                  ELSE IF HasPrefix(t, "Confidence")
                       THEN [f EXCEPT !.confidence = ValueByReplace(t)]
                  ELSE IF HasPrefix(t, "Suggest")
                       THEN [f EXCEPT !.suggest = ValueByReplace(t)]
                  ELSE f
         IN  PriorityCursor(d, cursor + 1, g, Append(visited, cursor))

\* const li = node.querySelector('li'); titleText = li ? li.textContent.trim() : ''
TitleText(ul) == IF ul.items = <<>> THEN <<>> ELSE Trim(ul.items[1])

\* the outer while loop (lines 420-458)
RECURSIVE PriorityWalk(_, _, _, _)
PriorityWalk(d, node, cards, toRemove) ==
    IF node > Len(d) \/ IsTag(d[node], "H3")
    THEN [cards |-> cards, toRemove |-> toRemove]
    ELSE IF IsTag(d[node], "UL") /\ HasPrefix(TitleText(d[node]), "Title")
         THEN LET c == PriorityCursor(d, node + 1, NoFields, <<>>)
                  card == PriorityCard(ValueBySplit(TitleText(d[node])),
                                       c.fields.reason, c.fields.urgency,
                                       c.fields.confidence, c.fields.suggest)
              IN  PriorityWalk(d, c.cursor, Append(cards, card),
                               (toRemove \o c.visited) \o <<node>>)
         ELSE PriorityWalk(d, node + 1, cards, Append(toRemove, node))

\* PriorityScan with a seeded fault: the last matching heading is taken
PriorityScan_LastHeading(d) ==
    IF Anchors(d, "Priority") = {} THEN d
    ELSE LET priH3 == CHOOSE i \in Anchors(d, "Priority") :
                          \A j \in Anchors(d, "Priority") : j <= i
             w == PriorityWalk(d, priH3 + 1, <<>>, <<>>)
         IN  InsertAndRemove(d, Section(w.cards), w.toRemove)

PriorityScan(d) ==
    IF Anchors(d, "Priority") = {} THEN d
    ELSE LET priH3 == First(Anchors(d, "Priority"))
             w == PriorityWalk(d, priH3 + 1, <<>>, <<>>)
         IN  InsertAndRemove(d, Section(w.cards), w.toRemove)

-----------------------------------------------------------------------------
(* Scan 5 (lines 464-502): 趋势 / 情绪 / 风格 under the h3 that contains 大盘复盘 *)

keys == <<"Trend", "Mood", "Style">>

\* keys.find(k => new RegExp('^' + k).test(t))
KeyOf(t) ==
    IF \E k \in 1..Len(keys) : HasPrefix(t, keys[k])
    THEN <<keys[First({k \in 1..Len(keys) : HasPrefix(t, keys[k])})]>>
    ELSE <<>>

\* ReviewWalk with a seeded fault: the node taken as a card's body is
\* visited as well
RECURSIVE ReviewWalk_VisitsBody(_, _, _, _)
ReviewWalk_VisitsBody(d, node, cards, removeList) ==
    IF node > Len(d) \/ IsTag(d[node], "H3")
    THEN [cards |-> cards, removeList |-> removeList]
    ELSE IF IsTag(d[node], "P") /\ KeyOf(Trim(d[node].text)) # <<>>
         THEN LET key == KeyOf(Trim(d[node].text))
                  cursor == node + 1
                  isUL == cursor <= Len(d) /\ IsTag(d[cursor], "UL")
                  isP == cursor <= Len(d) /\ IsTag(d[cursor], "P")
                  content == IF isUL THEN <<ListCopy(d[cursor])>>
                             ELSE IF isP
                                  THEN <<[tag |-> "P", text |-> Trim(d[cursor].text)]>>
                                  ELSE <<>>
              IN  ReviewWalk_VisitsBody(d, cursor,
                             Append(cards, Card(key, <<>>, <<>>, <<>>, content)),
                             Append(removeList, node))
         ELSE ReviewWalk_VisitsBody(d, node + 1, cards, Append(removeList, node))

RECURSIVE ReviewWalk(_, _, _, _)
ReviewWalk(d, node, cards, removeList) ==
    IF node > Len(d) \/ IsTag(d[node], "H3")
    THEN [cards |-> cards, removeList |-> removeList]
    ELSE IF IsTag(d[node], "P") /\ KeyOf(Trim(d[node].text)) # <<>>
         THEN LET key == KeyOf(Trim(d[node].text))
                  cursor == node + 1
                  isUL == cursor <= Len(d) /\ IsTag(d[cursor], "UL")
                  isP == cursor <= Len(d) /\ IsTag(d[cursor], "P")
                  content == IF isUL THEN <<ListCopy(d[cursor])>>
                             ELSE IF isP
                                  THEN <<[tag |-> "P", text |-> Trim(d[cursor].text)]>>
                                  ELSE <<>>
                  taken == IF isUL \/ isP THEN <<cursor>> ELSE <<>>
              IN  ReviewWalk(d, cursor + Len(taken),
                             Append(cards, Card(key, <<>>, <<>>, <<>>, content)),
                             (removeList \o taken) \o <<node>>)
         ELSE ReviewWalk(d, node + 1, cards, Append(removeList, node))

ReviewScan(d) ==
    IF Anchors(d, "Review") = {} THEN d
    ELSE LET revH3 == First(Anchors(d, "Review"))
             w == ReviewWalk(d, revH3 + 1, <<>>, <<>>)
         IN  InsertAndRemove(d, Section(w.cards), w.removeList)

\* the whole DOMContentLoaded handler
Cardify(d) == ReviewScan(PriorityScan(TableScan(ThematicScan(LabelScan(d)))))

-----------------------------------------------------------------------------
(* Card-ification script: one action per scan, in the order of the script *)

ParseIdle ==
    /\ lines = <<>> /\ ln = 1
    /\ out = <<>> /\ out_src = <<>>
    /\ in_list = FALSE /\ list_items = <<>> /\ list_src = <<>>
    /\ in_table = FALSE /\ table_lines = <<>> /\ table_src = <<>>
    /\ mpc = "idle"

\* a scan has run to its end: the script moves on to the next one
ScanDone(d, next) ==
    /\ domPrev' = dom
    /\ dom' = d
    /\ cpc' = next
    /\ UNCHANGED dom0
    /\ UNCHANGED <<mvars, tvars>>

ScanLabels ==
    /\ cpc = "labels"
    /\ ScanDone(LabelScan(dom), "thematic")

ScanThematic ==
    /\ cpc = "thematic"
    /\ ScanDone(ThematicScan(dom), "table")

ScanTable ==
    /\ cpc = "table"
    /\ ScanDone(TableScan(dom), "priority")

ScanPriority ==
    /\ cpc = "priority"
    /\ ScanDone(PriorityScan(dom), "review")

ScanReview ==
    /\ cpc = "review"
    /\ ScanDone(ReviewScan(dom), "done")

NextCard == ScanLabels \/ ScanThematic \/ ScanTable \/ ScanPriority \/ ScanReview

\* the document the script starts on
Loaded(d) ==
    /\ dom = d /\ dom0 = d /\ domPrev = d
    /\ cpc = "labels"
    /\ ParseIdle
    /\ ToolsIdle

-----------------------------------------------------------------------------
(* Card-ification script: documents md_to_html can produce *)

H3(t) == [tag |-> "H3", text |-> t]
H4(t) == [tag |-> "H4", text |-> t]
P(t) == [tag |-> "P", text |-> t]
UL(items) == [tag |-> "UL", items |-> items]
TABLE(header, rows) == [tag |-> "TABLE", header |-> header, rows |-> rows]
HR == [tag |-> "HR"]

StdHeader == <<<<"Evt">>, <<"Date">>, <<"View">>, <<"Effect">>, <<"Sector">>, <<"Advice">>>>

NodePool ==
    { H3(<<"a", "Priority">>), H3(<<"Review">>), H3(<<"a">>),
      H4(<<"a">>), HR,
      P(<<"a">>), P(<<"MainRisk", "Colon">>), P(<<" ", "Hedging", "Colon">>),
      P(<<"Trend", "Colon", "a">>),
      P(<<"Urgency", "Colon", "b">>), P(<<"HighPriItems", "Colon">>),
      UL(<<<<"Title", "Colon", "a">>>>), UL(<<<<"a">>, <<"b">>>>),
      TABLE(StdHeader, <<<<<<"e">>, <<"d">>, <<"v">>, <<"i">>, <<"s">>, <<"r">>>>>>) }

InitCard == \E d \in SeqsUpTo(NodePool, MaxNodes) : Loaded(d)

SpecCard == InitCard /\ [][NextCard]_vars

-----------------------------------------------------------------------------
(* Card-ification script: one priority item in the format the prompt asks for
   (build_messages, line 60): heading, list opening with 标题, then one
   paragraph per field *)

\* the text after '标题：'; a list entry carries no trailing blank
\* (md_to_html strips it, line 252)
TitleTexts == {t \in SeqsUpTo({"a", " ", "Colon"}, MaxTitleLen) : RStrip(t) = t}

FieldValues == { <<"b">>, <<"b", "Colon", "c">> }

ExtraEntries == { <<>>, <<<<"Reason", "Colon", "z">>>> }

Field(label, value) == <<label, "Colon">> \o value

ItemDocument(T, extra, R, U, C, S) ==
    << H3(<<"a", "Priority">>),
       UL(<<Field("Title", T)>> \o extra),
       P(Field("Reason", R)), P(Field("Urgency", U)),
       P(Field("Confidence", C)), P(Field("Suggest", S)) >>

InitPriorityItem ==
    \E T \in TitleTexts, extra \in ExtraEntries, R, U, C, S \in FieldValues :
        Loaded(ItemDocument(T, extra, R, U, C, S))

SpecPriorityItem == InitPriorityItem /\ [][NextCard]_vars

-----------------------------------------------------------------------------
(* Card-ification script: several items under the priority heading *)

ItemNodePool ==
    { UL(<<Field("Title", <<"a">>)>>), UL(<<Field("Title", <<"b">>)>>),
      UL(<<<<"a">>>>),
      P(Field("Reason", <<"r">>)), P(Field("Urgency", <<"u">>)),
      P(Field("Urgency", <<"v">>)), P(Field("Confidence", <<"c">>)),
      P(Field("Suggest", <<"s">>)), P(<<"a">>), H3(<<"a">>) }

InitPriorityList ==
    \E body \in SeqsUpTo(ItemNodePool, MaxItemNodes) :
        Loaded(<<H3(<<"a", "Priority">>)>> \o body)

SpecPriorityList == InitPriorityList /\ [][NextCard]_vars

-----------------------------------------------------------------------------
(* Card-ification script: nodes under the market-review heading *)

ReviewNodePool ==
    { P(<<"Trend", "Colon", "a">>), P(<<" ", "Mood", "Colon", "b">>),
      P(<<"Style">>), P(<<"a", " ">>),
      UL(<<<<"a">>, <<"b">>>>), H4(<<"a">>), HR, H3(<<"a">>) }

InitReviewList ==
    \E body \in SeqsUpTo(ReviewNodePool, MaxItemNodes) :
        Loaded(<<H3(<<"Review">>)>> \o body)

SpecReviewList == InitReviewList /\ [][NextCard]_vars

-----------------------------------------------------------------------------
(* Card-ification script: documents that open with an event table *)

SynHeader ==
    <<<<"EvtName">>, <<"DateWindow">>, <<"ViewAhead">>, <<"MarketEffect">>,
      <<"Sector">>, <<"AdviceHedge">>>>
SwapHeader == <<<<"Date">>, <<"Evt">>, <<"View">>, <<"Effect">>, <<"Sector">>, <<"Advice">>>>
BothHeader == <<<<"EvtName">>, <<"Evt">>, <<"View">>, <<"Effect">>, <<"Sector">>, <<"Advice">>>>
PlainHeader == <<<<"h1">>, <<"h2">>, <<"h3">>, <<"h4">>, <<"h5">>, <<"h6">>>>

HeaderPool == {StdHeader, SynHeader, SwapHeader, BothHeader, PlainHeader}

FullRow == <<<<"e">>, <<"d">>, <<"v">>, <<"i">>, <<"s">>, <<"r">>>>

\* the full row; the full row with the cells of one set of columns left
\* empty; rows cut short (a malformed table)
RowPool ==
    {[c \in 1..6 |-> IF c \in E THEN <<>> ELSE FullRow[c]] :
        E \in {{}, {1}, {2}, {3}, {4}, {5}, {6}, {1, 2}}}
    \cup {SubSeq(FullRow, 1, 1), SubSeq(FullRow, 1, 3)}

LaterNodes == { <<>>, <<TABLE(StdHeader, <<FullRow>>)>> }

InitEventTable ==
    \E h \in HeaderPool, rows \in SeqsUpTo(RowPool, MaxRows), rest \in LaterNodes :
        Loaded(<<TABLE(h, rows)>> \o rest)

SpecEventTable == InitEventTable /\ [][NextCard]_vars

-----------------------------------------------------------------------------
(* send_md_to_notifications (lines 515-563) *)

\* Configured with a seeded fault: the test is "key in config"
Configured_KeyPresent(key) == config[key] # "absent"

\* config.get(key) is truthy: the key is there and its value is not empty
Configured(key) == config[key] = "set"

\* what one requests.post call can do: return a response with a status code
\* (any code: the function does not look at it) or raise
StatusCodes == {200, 400, 500}

PostOutcomes ==
    {[raised |-> FALSE, status_code |-> c] : c \in StatusCodes}
    \cup {[raised |-> TRUE, e |-> "timeout"]}

\* the key an exception is stored under
ErrorKey ==
    [feishu |-> "feishu_error", dingtalk |-> "dingtalk_error",
     wework |-> "wework_error", telegram |-> "telegram_error"]

\* try: resp = requests.post(...); results[ch] = resp.status_code
\* except Exception as e: results[ch + "_error"] = str(e)
Post(channel, o) ==
    /\ attempts' = Append(attempts, [channel |-> channel, proxied |-> proxy_url = "set"])
    /\ results' = Append(results,
                         IF o.raised THEN [key |-> ErrorKey[channel], value |-> o.e]
                         ELSE [key |-> channel, value |-> o.status_code])

Skip == UNCHANGED <<results, attempts>>

\* the function moves on to the next block
Goto(next) ==
    /\ npc' = next
    /\ UNCHANGED <<config, proxy_url>>
    /\ UNCHANGED <<mvars, cvars, dvars, kvars, avars>>

\* NotifyFeishu with a seeded fault: an exception ends the fan-out
NotifyFeishu_FailureStops ==
    /\ npc = "feishu"
    /\ IF Configured("FEISHU_WEBHOOK_URL")
       THEN \E o \in PostOutcomes :
               /\ Post("feishu", o)
               /\ Goto(IF o.raised THEN "returned" ELSE "dingtalk")
       ELSE Skip /\ Goto("dingtalk")

NotifyFeishu ==
    /\ npc = "feishu"
    /\ IF Configured("FEISHU_WEBHOOK_URL")
       THEN \E o \in PostOutcomes : Post("feishu", o)
       ELSE Skip
    /\ Goto("dingtalk")

NotifyDingtalk ==
    /\ npc = "dingtalk"
    /\ IF Configured("DINGTALK_WEBHOOK_URL")
       THEN \E o \in PostOutcomes : Post("dingtalk", o)
       ELSE Skip
    /\ Goto("wework")

NotifyWework ==
    /\ npc = "wework"
    /\ IF Configured("WEWORK_WEBHOOK_URL")
       THEN \E o \in PostOutcomes : Post("wework", o)
       ELSE Skip
    /\ Goto("telegram")

\* NotifyTelegram with a seeded fault: the bot token alone is enough
NotifyTelegram_TokenOnly ==
    /\ npc = "telegram"
    /\ IF Configured("TELEGRAM_BOT_TOKEN")
       THEN \E o \in PostOutcomes : Post("telegram", o)
       ELSE Skip
    /\ Goto("returned")

NotifyTelegram ==
    /\ npc = "telegram"
    /\ IF Configured("TELEGRAM_BOT_TOKEN") /\ Configured("TELEGRAM_CHAT_ID")
       THEN \E o \in PostOutcomes : Post("telegram", o)
       ELSE Skip
    /\ Goto("returned")

NextNotify == NotifyFeishu \/ NotifyDingtalk \/ NotifyWework \/ NotifyTelegram

\* the call: any config dict, with or without a proxy
InitNotify ==
    /\ config \in [ConfigKeys -> {"absent", "empty", "set"}]
    /\ proxy_url \in {"none", "set"}
    /\ results = <<>> /\ attempts = <<>>
    /\ npc = "feishu"
    /\ ParseIdle /\ CardIdle /\ DeepseekIdle /\ LoadKeyIdle /\ MainIdle

SpecNotify == InitNotify /\ [][NextNotify]_vars

-----------------------------------------------------------------------------
(* call_deepseek (lines 73-92): the values it handles *)

\* a JSON value that is a string, and null
Str(s) == [type |-> "str", s |-> s]
Null == [type |-> "null"]

\* {"choices": [{"message": {"content": v}}]}
WithContent(v) == [choices |-> <<[message |-> [content |-> v]]>>]

ContentTexts == SeqsUpTo({"a", " "}, MaxContentLen)

\* what resp.json() can give: the documented shape with a text, the shape
\* with content null, an empty choices list, an object without choices
JsonValues ==
    {WithContent(Str(c)) : c \in ContentTexts}
    \cup {WithContent(Null), [choices |-> <<>>], [error |-> "e"]}

\* response bodies: a JSON document, or text that is not JSON
Bodies == {[is_json |-> TRUE, data |-> d] : d \in JsonValues} \cup {[is_json |-> FALSE]}

Responses == {[status_code |-> c, body |-> b] : c \in {200, 401, 500}, b \in Bodies}

\* a str holding plain text, and the str json.dumps(data, ...) builds
Text(s) == [form |-> "text", s |-> s]
Dumps(data) == [form |-> "json.dumps", data |-> data]

Returned(v) == [raised |-> FALSE, value |-> v]
Raised(e) == [raised |-> TRUE, e |-> e]

\* data["choices"][0]["message"]["content"].strip() does not raise
HasContentText(data) ==
    /\ "choices" \in DOMAIN data
    /\ Len(data.choices) >= 1
    /\ data.choices[1].message.content.type = "str"

\* requests.post(DEEPSEEK_API_BASE, headers=headers, data=json.dumps(payload), timeout=60)
Request(args) ==
    [url |-> "DEEPSEEK_API_BASE",
     Authorization |-> <<"Bearer", args.api_key>>,
     payload |-> [model |-> "DEEPSEEK_MODEL", messages |-> args.messages, stream |-> FALSE]]

-----------------------------------------------------------------------------
(* call_deepseek: the steps *)

DeepseekLeave(pc, value) ==
    /\ dpc' = pc
    /\ answer' = value
    /\ UNCHANGED <<call_args, sent, resp>>
    /\ UNCHANGED <<mvars, cvars, nvars, kvars, avars>>

DeepseekStep(pc) ==
    /\ dpc' = pc
    /\ UNCHANGED <<call_args, sent, resp, answer>>
    /\ UNCHANGED <<mvars, cvars, nvars, kvars, avars>>

\* line 85: the request is made; it gives a response or raises
DeepseekPost ==
    /\ dpc = "post"
    /\ sent' = Append(sent, Request(call_args))
    /\ \/ \E r \in Responses : resp' = r /\ dpc' = "status" /\ answer' = answer
       \/ /\ resp' = resp /\ dpc' = "raised"
          /\ answer' = Raised([type |-> "RequestException"])
    /\ UNCHANGED call_args
    /\ UNCHANGED <<mvars, cvars, nvars, kvars, avars>>

\* lines 86-87
DeepseekCheckStatus ==
    /\ dpc = "status"
    /\ IF resp.status_code # 200
       THEN DeepseekLeave("raised",
                Raised([type |-> "RuntimeError",
                        status_code |-> resp.status_code, text |-> resp.body]))
       ELSE DeepseekStep("json")

\* line 88: data = resp.json(), outside the try
DeepseekJson ==
    /\ dpc = "json"
    /\ IF resp.body.is_json
       THEN DeepseekStep("extract")
       ELSE DeepseekLeave("raised", Raised([type |-> "JSONDecodeError"]))

\* DeepseekExtract with a seeded fault: no try/except around the lookup
DeepseekExtract_NoFallback ==
    /\ dpc = "extract"
    /\ LET data == resp.body.data IN
       IF HasContentText(data)
       THEN DeepseekLeave("returned",
                Returned(Text(Strip(data.choices[1].message.content.s))))
       ELSE DeepseekLeave("raised", Raised([type |-> "LookupError"]))

\* lines 89-92
DeepseekExtract ==
    /\ dpc = "extract"
    /\ LET data == resp.body.data IN
       IF HasContentText(data)
       THEN DeepseekLeave("returned",
                Returned(Text(Strip(data.choices[1].message.content.s))))
       ELSE DeepseekLeave("returned", Returned(Dumps(data)))

NextDeepseek == DeepseekPost \/ DeepseekCheckStatus \/ DeepseekJson \/ DeepseekExtract

InitDeepseek ==
    /\ call_args \in [api_key : {"k1", "k2"}, messages : {"m1", "m2"}]
    /\ sent = <<>> /\ resp = NoValue /\ answer = NoValue
    /\ dpc = "post"
    /\ ParseIdle /\ CardIdle /\ NotifyIdle /\ LoadKeyIdle /\ MainIdle

SpecDeepseek == InitDeepseek /\ [][NextDeepseek]_vars

-----------------------------------------------------------------------------
(* load_deepseek_api_key (lines 15-48) *)

\* a line of the .env file is a sequence of symbols: " ", "#", "=", a name,
\* a key text

candidates == <<"deepseek_API_KEY", "DEEPSEEK_API_KEY">>

\* None, and a str
None == [is_none |-> TRUE, s |-> <<>>]
Some(s) == [is_none |-> FALSE, s |-> s]

\* the truth value of None or a str
Truthy(v) == ~v.is_none /\ v.s # <<>>

IsCandidate(k) == \E i \in 1..Len(candidates) : k = <<candidates[i]>>

\* the loop over the lines (lines 26-34): the first line that is no comment
\* and assigns one of the candidate names decides, whatever its value
RECURSIVE ScanEnvLines(_)
ScanEnvLines(ls) ==
    IF ls = <<>> THEN None
    ELSE LET line == Strip(Head(ls)) IN
         IF line = <<>> \/ Head(line) = "#" THEN ScanEnvLines(Tail(ls))
         ELSE IF \E i \in 1..Len(line) : line[i] = "="
              THEN LET eq == First({i \in 1..Len(line) : line[i] = "="})
                       k == SubSeq(line, 1, eq - 1)
                       v == DropN(line, eq)
                   IN  IF IsCandidate(Strip(k)) THEN Some(Strip(v))
                       ELSE ScanEnvLines(Tail(ls))
              ELSE ScanEnvLines(Tail(ls))

\* os.environ.get(name)
EnvironGet(name) == environ[name]

\* for name in candidates: api_key = os.environ.get(name); if api_key: break
RECURSIVE ScanEnviron(_, _)
ScanEnviron(names, current) ==
    IF names = <<>> THEN current
    ELSE IF Truthy(EnvironGet(Head(names))) THEN EnvironGet(Head(names))
         ELSE ScanEnviron(Tail(names), EnvironGet(Head(names)))

LoadKeyStep(pc, value) ==
    /\ kpc' = pc
    /\ api_key' = value
    /\ UNCHANGED <<env_file, environ>>
    /\ UNCHANGED <<mvars, cvars, nvars, dvars, avars>>

\* lines 24-36: a file that is not there, or whose reading raises, leaves
\* api_key None
LoadKeyFile ==
    /\ kpc = "file"
    /\ LoadKeyStep("environ",
                   IF env_file.exists /\ env_file.readable
                   THEN ScanEnvLines(env_file.lines) ELSE None)

\* lines 38-42
LoadKeyEnviron ==
    /\ kpc = "environ"
    /\ LoadKeyStep("check",
                   IF ~Truthy(api_key) THEN ScanEnviron(candidates, api_key)
                   ELSE api_key)

\* lines 44-48
LoadKeyCheck ==
    /\ kpc = "check"
    /\ LoadKeyStep(IF ~Truthy(api_key) THEN "raised" ELSE "returned", api_key)

NextLoadKey == LoadKeyFile \/ LoadKeyEnviron \/ LoadKeyCheck

EnvLinePool ==
    { <<>>,
      <<"#", "deepseek_API_KEY", "=", "k1">>,
      <<"OTHER", "=", "k1">>,
      <<"deepseek_API_KEY">>,
      <<"deepseek_API_KEY", "=", "k1">>,
      <<" ", "DEEPSEEK_API_KEY", " ", "=", " ", "k2", " ">>,
      <<"DEEPSEEK_API_KEY", "=", "k2", "=", "k1">>,
      <<"deepseek_API_KEY", "=">> }

EnvFiles ==
    {[exists |-> FALSE, readable |-> FALSE, lines |-> <<>>]}
    \cup {[exists |-> TRUE, readable |-> FALSE, lines |-> ls] :
              ls \in SeqsUpTo(EnvLinePool, 1)}
    \cup {[exists |-> TRUE, readable |-> TRUE, lines |-> ls] :
              ls \in SeqsUpTo(EnvLinePool, MaxEnvLines)}

EnvironValues == {None, Some(<<>>), Some(<<"k3">>), Some(<<"k4">>)}

InitLoadKey ==
    /\ env_file \in EnvFiles
    /\ environ \in [{candidates[1], candidates[2]} -> EnvironValues]
    /\ api_key = None
    /\ kpc = "file"
    /\ ParseIdle /\ CardIdle /\ NotifyIdle /\ DeepseekIdle /\ MainIdle

SpecLoadKey == InitLoadKey /\ [][NextLoadKey]_vars

-----------------------------------------------------------------------------
(* main (test/ai_deepseek_analysis.py, lines 160-197) *)

\* TARGET_LINE_NUMBER: None (the whole file is read) or an int
NoLineNumber == [is_none |-> TRUE]
LineNumber(n) == [is_none |-> FALSE, n |-> n]

\* str.splitlines() for text whose only line break is "\n"
RECURSIVE SplitLines(_)
SplitLines(text) ==
    IF text = <<>> THEN <<>>
    ELSE IF \E i \in 1..Len(text) : text[i] = "\n"
         THEN LET nl == First({i \in 1..Len(text) : text[i] = "\n"})
              IN  <<SubSeq(text, 1, nl - 1)>> \o SplitLines(DropN(text, nl))
         ELSE <<text>>

\* read_line_text(file_path, line_number)   (lines 86-95)
read_line_text(file, line_number) ==
    IF ~file.exists THEN Raised([type |-> "FileNotFoundError"])
    ELSE LET file_lines == SplitLines(file.text) IN
         IF line_number < 1 \/ line_number > Len(file_lines)
         THEN Raised([type |-> "ValueError"])
         ELSE Returned(Strip(file_lines[line_number]))

\* read_full_text(file_path)   (lines 98-103)
read_full_text(file) ==
    IF ~file.exists THEN Raised([type |-> "FileNotFoundError"])
    ELSE Returned(file.text)

\* step 2 of main (lines 170-179)
ObtainText ==
    IF Strip(override) # <<>> THEN Returned(Strip(override))
    ELSE IF target_line_number.is_none THEN read_full_text(target_file)
         ELSE read_line_text(target_file, target_line_number.n)

\* build_messages(text_to_analyze, instruction_prompt)   (lines 106-125)
build_messages(text, instruction_prompt) ==
    <<[role |-> "system", content |-> <<"system_msg">>],
      [role |-> "user", content |-> <<"text:", text, "task:", instruction_prompt>>]>>

\* main leaves load_deepseek_api_key, read_full_text, read_line_text and
\* call_deepseek uncaught: an exception of theirs ends main
MainRaise ==
    /\ apc' = "raised"
    /\ UNCHANGED <<override, target_file, target_line_number, text_to_analyze, out_file>>
    /\ UNCHANGED <<mvars, cvars, nvars, dvars, kvars>>

\* line 166: load_deepseek_api_key() raised
MainKeyMissing ==
    /\ apc = "load" /\ kpc = "raised"
    /\ MainRaise

\* lines 170-179: the key is there, the text cannot be had
MainTextUnreadable ==
    /\ apc = "load" /\ kpc = "returned"
    /\ ObtainText.raised
    /\ MainRaise

\* lines 170-188: the key is there and so is the text; the messages are
\* built and call_deepseek(api_key, messages) is entered
MainObtainText ==
    /\ apc = "load" /\ kpc = "returned"
    /\ ~ObtainText.raised
    /\ text_to_analyze' = Text(ObtainText.value)
    /\ call_args' = [api_key |-> api_key.s,
                     messages |-> build_messages(ObtainText.value, "INSTRUCTION_PROMPT")]
    /\ dpc' = "post"
    /\ apc' = "call"
    /\ UNCHANGED <<override, target_file, target_line_number, out_file>>
    /\ UNCHANGED <<sent, resp, answer>>
    /\ UNCHANGED <<mvars, cvars, nvars, kvars>>

\* MainCallFailed with a seeded fault: the exception is caught and the
\* output file is written all the same
MainCallFailed_StillSaves ==
    /\ apc = "call" /\ dpc = "raised"
    /\ out_file' = Text(<<>>)
    /\ apc' = "done"
    /\ UNCHANGED <<override, target_file, target_line_number, text_to_analyze>>
    /\ UNCHANGED <<mvars, cvars, nvars, dvars, kvars>>

\* line 188: call_deepseek raised
MainCallFailed ==
    /\ apc = "call" /\ dpc = "raised"
    /\ MainRaise

\* lines 188-197: result = call_deepseek(...); out_file = save_output(result)
MainSave ==
    /\ apc = "call" /\ dpc = "returned"
    /\ out_file' = answer.value
    /\ apc' = "done"
    /\ UNCHANGED <<override, target_file, target_line_number, text_to_analyze>>
    /\ UNCHANGED <<mvars, cvars, nvars, dvars, kvars>>

NextMain ==
    \/ LoadKeyFile \/ LoadKeyEnviron \/ LoadKeyCheck
    \/ MainKeyMissing \/ MainTextUnreadable \/ MainObtainText
    \/ DeepseekPost \/ DeepseekCheckStatus \/ DeepseekJson \/ DeepseekExtract
    \/ MainCallFailed \/ MainSave

\* the override: empty (as the file sets it), blank, a text with blanks
\* around it
Overrides == { <<>>, <<" ">>, <<" ", "t", " ">> }

\* the target file: not there, empty, two lines
TargetFiles ==
    { [exists |-> FALSE, text |-> <<>>],
      [exists |-> TRUE, text |-> <<>>],
      [exists |-> TRUE, text |-> <<"t", "\n", " ", "u", "\n">>] }

\* None (as the file sets it), a line of the file, numbers outside it
LineNumbers == {NoLineNumber} \cup {LineNumber(n) : n \in 0..3}

\* .env files of at most one line, and the first candidate name in the
\* environment
MainEnvFiles == {f \in EnvFiles : Len(f.lines) <= 1}

MainEnviron ==
    {e \in [{candidates[1], candidates[2]} -> EnvironValues] : e[candidates[2]] = None}

\* main is entered: line 166 is about to call load_deepseek_api_key()
InitMain ==
    /\ override \in Overrides
    /\ target_file \in TargetFiles
    /\ target_line_number \in LineNumbers
    /\ text_to_analyze = NoValue /\ out_file = NoValue
    /\ apc = "load"
    /\ env_file \in MainEnvFiles
    /\ environ \in MainEnviron
    /\ api_key = None
    /\ kpc = "file"
    /\ ParseIdle /\ CardIdle /\ NotifyIdle /\ DeepseekIdle

SpecMain == InitMain /\ [][NextMain]_vars

-----------------------------------------------------------------------------
(* Properties of md_to_html *)

Kinds(ls) == [i \in 1..Len(ls) |-> LineKind(ls[i])]

\* the numbers of the non-blank lines among the first n, ascending
NonBlankUpTo(n) ==
    SelectSeq([i \in 1..n |-> i], LAMBDA i : LineKind(lines[i]) # "blank")

\* number of maximal runs of adjacent entries equal to k
Runs(ks, k) ==
    Cardinality({i \in 1..Len(ks) : ks[i] = k /\ (i = 1 \/ ks[i - 1] # k)})

WithoutBlanks(ks) == SelectSeq(ks, LAMBDA k : k # "blank")

IsUL(b) == b.tag = "UL"
IsTABLE(b) == b.tag = "TABLE"

ListItemOf(raw) == Strip(RemoveBold(DropN(Stripped(raw), 2)))

\* the items of the list lines, in input order
AllItems ==
    LET idx == SelectSeq([i \in 1..Len(lines) |-> i],
                         LAMBDA i : LineKind(lines[i]) = "list")
    IN  [j \in 1..Len(idx) |-> ListItemOf(lines[idx[j]])]

EmittedItems ==
    Flatten([j \in 1..Len(out) |-> IF IsUL(out[j]) THEN out[j].items ELSE <<>>])

\* C1: md_to_html runs to the end on every input, and the emitted blocks
\* partition the non-blank lines in input order: listing, block after block,
\* the lines each block was built from (then the lines still buffered) gives
\* exactly the non-blank lines read so far, in ascending order.
C1_BlocksPartitionLinesInOrder ==
    /\ Len(out_src) = Len(out)
    /\ mpc = "loop" =>
          Flatten(out_src) \o list_src \o table_src = NonBlankUpTo(ln - 1)
    /\ mpc = "done" =>
          /\ ln = Len(lines) + 1
          /\ Flatten(out_src) = NonBlankUpTo(Len(lines))
          /\ \A j \in 1..Len(out_src) : out_src[j] # <<>>

C1_Witness ==
    /\ mpc = "done" /\ Len(out) >= 3
    /\ \E j \in 1..Len(out) : IsUL(out[j])
    /\ \E j \in 1..Len(out) : IsTABLE(out[j])
    /\ \E i \in 1..Len(lines) : LineKind(lines[i]) = "blank"

\* C2 as stated: a blank line between list items does not start a new list,
\* so the number of lists is the number of runs of list lines once the blank
\* lines are taken out.
C2_BlankDoesNotSplitList ==
    mpc = "done" => Count(out, IsUL) = Runs(WithoutBlanks(Kinds(lines)), "list")

\* C2 amended: a blank line closes the list in progress.  The list buffer is
\* open exactly while the line just read is a list item; the lists emitted
\* are the maximal runs of adjacent list lines, so "- a", "", "- b" gives two
\* lists of one item each; no item is lost or reordered.
C2_BlankSplitsList ==
    /\ mpc = "loop" =>
          (in_list <=> (ln > 1 /\ LineKind(lines[ln - 1]) = "list"))
    /\ mpc = "done" =>
          /\ Count(out, IsUL) = Runs(Kinds(lines), "list")
          /\ EmittedItems = AllItems

C2_Witness ==
    /\ mpc = "done"
    /\ \E i \in 1..(Len(lines) - 2) :
          /\ LineKind(lines[i]) = "list"
          /\ LineKind(lines[i + 1]) = "blank"
          /\ LineKind(lines[i + 2]) = "list"
    /\ Count(out, IsUL) = 2

C11_DashesOrEmpty(c) == \A i \in 1..Len(c) : c[i] = "-"

\* the rows of the lines a table block was built from
C11_RowsOf(j) ==
    [k \in 1..Len(out_src[j]) |-> TableRow(Stripped(lines[out_src[j][k]]))]

\* C11: in every table the first aggregated row is the header; when the
\* second row holds only dash-only or empty cells it is dropped and the rows
\* after it are the body, in order; otherwise every row after the header is
\* a body row, in order, and none is dropped.
C11_HeaderThenBody ==
    mpc = "done" =>
        \A j \in 1..Len(out) : IsTABLE(out[j]) =>
            LET rows == C11_RowsOf(j)
                separator == /\ Len(rows) >= 2
                             /\ \A c \in 1..Len(rows[2]) : C11_DashesOrEmpty(rows[2][c])
            IN  /\ out[j].header = rows[1]
                /\ out[j].rows = SubSeq(rows, IF separator THEN 3 ELSE 2, Len(rows))

\* a table of four lines: header, a separator with an empty cell (dropped),
\* then a body row and a dash row that is kept because it is not the second
C11_Witness ==
    /\ mpc = "done" /\ Len(out) = 1 /\ IsTABLE(out[1])
    /\ Len(out_src[1]) = 4
    /\ C11_RowsOf(1)[2] = <<<<>>, <<"-">>>>
    /\ out[1].rows = <<<<<<"a">>, <<"b">>>>, <<<<"-">>, <<"-">>>>>>

\* the whitespace-trimmed line
C12_Trimmed(raw) == LStrip(RStrip(raw))

C12_Begins(s, p) == Len(s) >= Len(p) /\ \A i \in 1..Len(p) : s[i] = p[i]

\* the classification in the order C12 lists the rules
C12_Class(raw) ==
    LET s == C12_Trimmed(raw) IN
    CASE C12_Begins(s, <<"#", "#", "#", "#", " ">>) -> "H4"
      [] ~C12_Begins(s, <<"#", "#", "#", "#", " ">>)
         /\ C12_Begins(s, <<"#", "#", "#", " ">>) -> "H3"
      [] ~C12_Begins(s, <<"#", "#", "#", "#", " ">>)
         /\ ~C12_Begins(s, <<"#", "#", "#", " ">>)
         /\ C12_Begins(s, <<"|">>) -> "TABLE"
      [] s = <<"-", "-", "-">> -> "HR"
      [] s # <<"-", "-", "-">> /\ C12_Begins(s, <<"-", " ">>) -> "UL"
      [] OTHER -> IF s # <<>> THEN "P" ELSE "nothing"

\* C12: every line is classified by the first matching rule in the order
\* '#### ' (level-4 heading), '### ' (level-3 heading), leading '|' (table
\* row), exactly '---' (rule), '- ' (list item), other non-blank
\* (paragraph), blank (nothing); the code, which tests level 3 before
\* level 4, gives a block of that class for every line, and no block for a
\* blank one.
C12_ClassifiedInListedOrder ==
    mpc = "done" =>
        \A i \in 1..Len(lines) :
            LET blocks == {j \in 1..Len(out) :
                              \E k \in 1..Len(out_src[j]) : out_src[j][k] = i}
            IN  IF C12_Class(lines[i]) = "nothing" THEN blocks = {}
                ELSE /\ Cardinality(blocks) = 1
                     /\ \A j \in blocks : out[j].tag = C12_Class(lines[i])

\* '#### a' has run through the loop and is a level-4 heading
C12_Witness ==
    /\ mpc = "done"
    /\ lines = <<<<"#", "#", "#", "#", " ", "a">>>>
    /\ out = <<[tag |-> "H4", text |-> <<"a">>]>>

\* the '|'-separated fields of a trimmed table line, left to right
RECURSIVE C17_Fields(_)
C17_Fields(s) ==
    IF \A i \in 1..Len(s) : s[i] # "|" THEN <<s>>
    ELSE LET k == CHOOSE i \in 1..Len(s) : s[i] = "|" /\ \A j \in 1..(i - 1) : s[j] # "|"
         IN  <<SubSeq(s, 1, k - 1)>> \o C17_Fields(SubSeq(s, k + 1, Len(s)))

\* the cells C17 gives a table line: the fields without the one empty field
\* before the leading border pipe and, when the line ends with a border pipe
\* of its own, without the one empty field after it; every cell trimmed
C17_Cells(raw) ==
    LET s == LStrip(RStrip(raw))
        inner == Tail(C17_Fields(s))
        cells == IF Len(s) >= 2 /\ s[Len(s)] = "|"
                 THEN SubSeq(inner, 1, Len(inner) - 1) ELSE inner
    IN  [c \in 1..Len(cells) |-> LStrip(RStrip(cells[c]))]

\* C17 as stated: the header and every body row of a table hold the cells
\* C17_Cells gives their lines, so an empty first or last cell keeps its
\* column and rows of differing cell counts each keep their own cells.
C17_CellsKeepPositions ==
    mpc = "done" =>
        \A j \in 1..Len(out) : IsTABLE(out[j]) =>
            LET src == out_src[j]
                dropped == Len(src) - 1 - Len(out[j].rows)
            IN  /\ out[j].header = C17_Cells(lines[src[1]])
                /\ \A r \in 1..Len(out[j].rows) :
                      out[j].rows[r] = C17_Cells(lines[src[1 + dropped + r]])

\* C23: after each input line the list buffer and the table buffer are never
\* both non-empty, in_list is true exactly when the list buffer is non-empty
\* and in_table exactly when the table buffer is non-empty; so flushing the
\* list before the table at a heading or at the end of the input never emits
\* blocks out of input order: every line of an emitted block comes before
\* every line of the blocks emitted after it.
C23_BuffersExclusive ==
    /\ ~(list_items # <<>> /\ table_lines # <<>>)
    /\ in_list <=> list_items # <<>>
    /\ in_table <=> table_lines # <<>>
    /\ Len(list_src) = Len(list_items) /\ Len(table_src) = Len(table_lines)
    /\ \A j \in 1..Len(out_src) : \A k \in 1..Len(out_src) :
          j < k => \A a \in 1..Len(out_src[j]) : \A b \in 1..Len(out_src[k]) :
                      out_src[j][a] < out_src[k][b]

\* a table closed by a list item, the list then closed by a heading and a
\* second table flushed at the end of the input
C23_Witness ==
    /\ mpc = "done" /\ Len(lines) = 4
    /\ LineKind(lines[1]) = "table" /\ LineKind(lines[2]) = "list"
    /\ LineKind(lines[3]) = "h3" /\ LineKind(lines[4]) = "table"
    /\ Len(out) = 4
    /\ IsTABLE(out[1]) /\ IsUL(out[2]) /\ IsTABLE(out[4])
    /\ out_src = << <<1>>, <<2>>, <<3>>, <<4>> >>

-----------------------------------------------------------------------------
(* Properties of the card-ification script *)

Occurs(node, d) == \E j \in 1..Len(d) : d[j] = node

\* the positions after anchor a, up to the next h3 or the end of the document
Under(d, a) ==
    {i \in (a + 1)..Len(d) : \A k \in (a + 1)..i : ~IsTag(d[k], "H3")}

IsTitleList(n) == IsTag(n, "UL") /\ HasPrefix(TitleText(n), "Title")

IsKeyParagraph(n) == IsTag(n, "P") /\ KeyOf(Trim(n.text)) # <<>>

\* positions under the priority heading that belong to an item: a list that
\* opens with 标题, and what follows it up to the next list
PriorityItemNodes(d, a) ==
    {i \in Under(d, a) :
        \E u \in Under(d, a) :
            /\ u <= i /\ IsTitleList(d[u])
            /\ \A k \in (u + 1)..i : ~IsTag(d[k], "UL")}

\* positions under the market-review heading that belong to a card: a
\* paragraph that opens with a key, and the list or paragraph right after it
ReviewCardNodes(d, a) ==
    {i \in Under(d, a) :
        \/ IsKeyParagraph(d[i])
        \/ /\ i - 1 \in Under(d, a) /\ IsKeyParagraph(d[i - 1])
           /\ (IsTag(d[i], "UL") \/ IsTag(d[i], "P"))}

\* C4 as stated: the script is idempotent; run on the document it produced,
\* it changes nothing.
C4_SecondRunChangesNothing ==
    cpc = "done" => Cardify(dom) = dom

\* C5 as stated: under the priority heading (the market-review heading), a
\* node that is not part of an item (a card pattern) stays in the document
\* unchanged; with no qualifying node under the heading the scan changes
\* nothing.
C5_UnmatchedNodesStay ==
    /\ (cpc = "review" /\ Anchors(domPrev, "Priority") # {}) =>
          LET a == First(Anchors(domPrev, "Priority")) IN
          /\ \A i \in Under(domPrev, a) \ PriorityItemNodes(domPrev, a) :
                Occurs(domPrev[i], dom)
          /\ PriorityItemNodes(domPrev, a) = {} => dom = domPrev
    /\ (cpc = "done" /\ Anchors(domPrev, "Review") # {}) =>
          LET a == First(Anchors(domPrev, "Review")) IN
          /\ \A i \in Under(domPrev, a) \ ReviewCardNodes(domPrev, a) :
                Occurs(domPrev[i], dom)
          /\ ReviewCardNodes(domPrev, a) = {} => dom = domPrev

\* the cards of scan 2 (a card that holds a copied list) and the card
\* containers of scan 3, as they stand when scan 3 has run
ThematicAndEventCards ==
    LET d == TableScan(ThematicScan(LabelScan(dom0)))
    IN  {d[i] : i \in {j \in 1..Len(d) :
                          /\ IsTag(d[j], "DIV")
                          /\ (d[j].class = "section" \/ d[j].meta = <<>>)}}

\* C6 as stated: every card of the thematic-section scan and of the
\* event-table scan is still in the final document, unchanged.
C6_EarlierCardsSurvive ==
    cpc = "done" => \A c \in ThematicAndEventCards : Occurs(c, dom)

IsThematicPair(d, i) ==
    /\ i < Len(d)
    /\ IsTag(d[i], "P") /\ Trim(d[i].text) \in cardSectionTitles
    /\ IsTag(d[i + 1], "UL")

IsLoneSectionTitle(d, i) ==
    /\ IsTag(d[i], "P") /\ Trim(d[i].text) \in cardSectionTitles
    /\ ~IsThematicPair(d, i)

C8_CardFor(p, ul) ==
    LET label == Trim(p.text) IN
    [tag |-> "DIV", class |-> "card",
     title |-> SubSeq(label, 1, Len(label) - 1),
     meta |-> <<>>, note |-> <<>>, lists |-> <<>>,
     body |-> <<[tag |-> "UL", class |-> "list", items |-> ul.items]>>]

\* C8: the thematic-section scan replaces every paragraph that is one of the
\* nine section labels and is directly followed by a list, together with
\* that list, by one card at that position, titled with the label minus its
\* final full-width colon and holding the list's items in order; every other
\* node, a label paragraph not followed by a list included, stays as it is.
C8_ThematicScanResult ==
    cpc = "table" =>
        dom = Flatten([i \in 1..Len(domPrev) |->
                  IF IsThematicPair(domPrev, i)
                  THEN <<C8_CardFor(domPrev[i], domPrev[i + 1])>>
                  ELSE IF i > 1 /\ IsThematicPair(domPrev, i - 1) THEN <<>>
                  ELSE <<domPrev[i]>>])

C8_Witness ==
    /\ cpc = "table"
    /\ \E i \in 1..Len(domPrev) : IsThematicPair(domPrev, i)
    /\ \E i \in 1..Len(domPrev) : IsLoneSectionTitle(domPrev, i)
    /\ Len(dom) = Len(domPrev) - 1

\* the position of the first h3 after anchor a, or one past the end
C13_NextHeading(d, a) ==
    IF \E k \in (a + 1)..Len(d) : IsTag(d[k], "H3")
    THEN First({k \in (a + 1)..Len(d) : IsTag(d[k], "H3")})
    ELSE Len(d) + 1

\* document before, document after, anchor a: the nodes up to and including
\* the anchor, and the nodes from the next h3 on, are the same nodes in the
\* same order; whatever changed lies between them
C13_Frame(before, after, a) ==
    LET h == C13_NextHeading(before, a)
        kept == Len(before) - h + 1
    IN  /\ Len(after) >= a + kept
        /\ Len(after) <= Len(before)
        /\ SubSeq(after, 1, a) = SubSeq(before, 1, a)
        /\ SubSeq(after, Len(after) - kept + 1, Len(after)) = SubSeq(before, h, Len(before))

\* C13: the priority-item scan and the market-review scan never remove,
\* replace or reorder the anchor heading, a node before it, or a node at or
\* after the next level-3 heading; everything they consume lies strictly
\* between the anchor and the next level-3 heading (or the end).
C13_ScansKeepFrame ==
    /\ (cpc = "review" /\ Anchors(domPrev, "Priority") # {}) =>
          C13_Frame(domPrev, dom, First(Anchors(domPrev, "Priority")))
    /\ (cpc = "done" /\ Anchors(domPrev, "Review") # {}) =>
          C13_Frame(domPrev, dom, First(Anchors(domPrev, "Review")))

\* the market-review scan has consumed a key paragraph that stood between a
\* node before the anchor and a following h3
C13_Witness ==
    /\ cpc = "done" /\ Len(domPrev) = 4
    /\ Anchors(domPrev, "Review") = {2}
    /\ IsKeyParagraph(domPrev[3]) /\ IsTag(domPrev[4], "H3")
    /\ dom # domPrev /\ Len(dom) = 4

\* the positions of the lists under anchor a that open with 标题, ascending
C14_TitleLists(d, a) ==
    SelectSeq([i \in 1..Len(d) |-> i],
              LAMBDA i : i \in Under(d, a) /\ IsTitleList(d[i]))

\* the paragraphs of the item whose list is at u: those after u, before the
\* next list, the next h3 or the end
C14_OwnParagraphs(d, u) ==
    {i \in (u + 1)..Len(d) :
        /\ IsTag(d[i], "P")
        /\ \A k \in (u + 1)..i : ~IsTag(d[k], "UL") /\ ~IsTag(d[k], "H3")}

\* the values a field of that item can show: the text after the label of one
\* of its own paragraphs that open with the label; the empty text when it has
\* none
C14_OwnValues(d, u, label) ==
    LET ps == {i \in C14_OwnParagraphs(d, u) : HasPrefix(Trim(d[i].text), label)}
    IN  IF ps = {} THEN {<<>>} ELSE {ValueByReplace(Trim(d[i].text)) : i \in ps}

\* what a card shows for reason and suggestion (nothing when empty)
C14_Reason(card) == IF card.note = <<>> THEN <<>> ELSE card.note[1].value
C14_Suggest(card) == IF card.lists = <<>> THEN <<>> ELSE card.lists[1].value[1]

\* C14: under the priority heading each list whose first entry starts with
\* 标题 yields exactly one card, the cards stand in the order of their lists,
\* and each card's reason, urgency, confidence and suggestion come only from
\* the paragraphs between its own list and the next list, the next level-3
\* heading or the end of the document.
C14_OneCardPerItemFromOwnParagraphs ==
    (cpc = "review" /\ Anchors(domPrev, "Priority") # {}) =>
        LET a == First(Anchors(domPrev, "Priority"))
            items == C14_TitleLists(domPrev, a)
        IN  items # <<>> =>
              /\ IsTag(dom[a + 1], "DIV") /\ dom[a + 1].class = "section"
              /\ Len(dom[a + 1].kids) = Len(items)
              /\ \A k \in 1..Len(items) :
                    LET card == dom[a + 1].kids[k]
                        own(label) == C14_OwnValues(domPrev, items[k], label)
                    IN  /\ card.class = "card"
                        /\ \E v \in own("Urgency") :
                              card.meta[1] = [label |-> "Urgency", value |-> Or(v, <<"-">>)]
                        /\ \E v \in own("Confidence") :
                              card.meta[2] = [label |-> "Confidence", value |-> Or(v, <<"-">>)]
                        /\ C14_Reason(card) \in own("Reason")
                        /\ C14_Suggest(card) \in own("Suggest")

\* two items, each followed by its own urgency paragraph with its own value
C14_Witness ==
    /\ cpc = "review" /\ Len(domPrev) = 5
    /\ Anchors(domPrev, "Priority") = {1}
    /\ C14_TitleLists(domPrev, 1) = <<2, 4>>
    /\ Len(dom) = 2 /\ Len(dom[2].kids) = 2
    /\ dom[2].kids[1].meta[1].value = <<"u">>
    /\ dom[2].kids[2].meta[1].value = <<"v">>

\* the node at i is a paragraph that opens with one of the three labels and
\* the node after it is a list or a paragraph
C15_TakesNext(d, i) ==
    /\ IsKeyParagraph(d[i])
    /\ i < Len(d) /\ (IsTag(d[i + 1], "UL") \/ IsTag(d[i + 1], "P"))

\* the walk from anchor a visits position i: the first node under the
\* heading; the node after a visited node that took no body; the node after
\* the body a visited paragraph took
RECURSIVE C15_Visited(_, _, _)
C15_Visited(d, a, i) ==
    /\ i \in Under(d, a)
    /\ \/ i = a + 1
       \/ i - 1 > a /\ C15_Visited(d, a, i - 1) /\ ~C15_TakesNext(d, i - 1)
       \/ i - 2 > a /\ C15_Visited(d, a, i - 2) /\ C15_TakesNext(d, i - 2)

\* the card C15 describes for the visited paragraph at i
C15_CardFor(d, i) ==
    [tag |-> "DIV", class |-> "card",
     title |-> <<Head(Trim(d[i].text))>>,
     meta |-> <<>>, note |-> <<>>, lists |-> <<>>,
     body |-> IF i < Len(d) /\ IsTag(d[i + 1], "UL")
              THEN <<[tag |-> "UL", class |-> "list", items |-> d[i + 1].items]>>
              ELSE IF i < Len(d) /\ IsTag(d[i + 1], "P")
                   THEN <<[tag |-> "P", text |-> Trim(d[i + 1].text)]>>
                   ELSE <<>>]

\* C15: walking from the level-3 heading that contains 大盘复盘 to the next
\* level-3 heading or the end, each visited paragraph that starts with 趋势,
\* 情绪 or 风格 gives one card titled with that label; the card's body is the
\* node right after the paragraph when that is a list or a paragraph (and
\* that node is then not visited) and is empty otherwise; the cards stand in
\* document order.
C15_ReviewCards ==
    (cpc = "done" /\ Anchors(domPrev, "Review") # {}) =>
        LET a == First(Anchors(domPrev, "Review"))
            visited == SelectSeq([i \in 1..Len(domPrev) |-> i],
                                 LAMBDA i : /\ C15_Visited(domPrev, a, i)
                                            /\ IsKeyParagraph(domPrev[i]))
        IN  Under(domPrev, a) # {} =>
              /\ IsTag(dom[a + 1], "DIV") /\ dom[a + 1].class = "section"
              /\ dom[a + 1].kids =
                    [k \in 1..Len(visited) |-> C15_CardFor(domPrev, visited[k])]

\* 趋势 takes the 情绪 paragraph as its body, so 情绪 gets no card; 风格,
\* before a rule, gets a card with no body
C15_Witness ==
    /\ cpc = "done" /\ Len(domPrev) = 5
    /\ Anchors(domPrev, "Review") = {1}
    /\ domPrev[2] = P(<<"Trend", "Colon", "a">>)
    /\ domPrev[3] = P(<<" ", "Mood", "Colon", "b">>)
    /\ domPrev[4] = P(<<"Style">>)
    /\ domPrev[5] = HR
    /\ Len(dom[2].kids) = 2
    /\ dom[2].kids[1].title = <<"Trend">>
    /\ dom[2].kids[1].body = <<P(<<"Mood", "Colon", "b">>)>>
    /\ dom[2].kids[2].title = <<"Style">>
    /\ dom[2].kids[2].body = <<>>

C22_Labels ==
    { <<"HighPriItems", "Colon">>, <<"MidPriItems", "Colon">>, <<"LowPriItems", "Colon">> }

\* a paragraph that is exactly one of the three labels, with a list after it
C22_IsLabelPair(d, i) ==
    /\ i < Len(d)
    /\ IsTag(d[i], "P") /\ LStrip(RStrip(d[i].text)) \in C22_Labels
    /\ IsTag(d[i + 1], "UL")

\* the text after 'label：' of the last entry that starts with the label;
\* empty when no entry does
C22_Entry(items, label) ==
    LET with == {k \in 1..Len(items) : HasPrefix(LStrip(RStrip(items[k])), label)}
    IN  IF with = {} THEN <<>>
        ELSE LET t == LStrip(RStrip(items[CHOOSE k \in with : \A j \in with : j <= k]))
             IN  LStrip(RStrip(IF Len(t) >= 2 /\ t[2] = "Colon"
                               THEN SubSeq(t, 3, Len(t)) ELSE SubSeq(t, 2, Len(t))))

\* the card C22 describes for a list
C22_CardFor(ul) ==
    LET title == C22_Entry(ul.items, "Title")
        reason == C22_Entry(ul.items, "Reason")
        urgency == C22_Entry(ul.items, "Urgency")
        confidence == C22_Entry(ul.items, "Confidence")
        suggest == C22_Entry(ul.items, "Suggest")
    IN  [tag |-> "DIV", class |-> "card",
         title |-> IF title # <<>> THEN title ELSE <<"KeyItem">>,
         meta |-> <<[label |-> "Urgency",
                     value |-> IF urgency # <<>> THEN urgency ELSE <<"-">>],
                    [label |-> "Confidence",
                     value |-> IF confidence # <<>> THEN confidence ELSE <<"-">>]>>,
         note |-> IF reason # <<>> THEN <<[label |-> "Reason", value |-> reason]>> ELSE <<>>,
         lists |-> IF suggest # <<>>
                   THEN <<[label |-> "Suggest", value |-> <<suggest>>]>> ELSE <<>>,
         body |-> <<>>]

\* C22 as stated: the priority-label scan replaces every paragraph that is
\* exactly 高优先级事项：, 中优先级事项： or 低优先级事项： and is followed by
\* a list, together with that list, by one card built from the list's
\* labelled entries; and that card is still in the final document when all
\* later scans have run.
C22_LabelCardSurvives ==
    /\ cpc = "thematic" =>
          dom = Flatten([i \in 1..Len(domPrev) |->
                    IF C22_IsLabelPair(domPrev, i) THEN <<C22_CardFor(domPrev[i + 1])>>
                    ELSE IF i > 1 /\ C22_IsLabelPair(domPrev, i - 1) THEN <<>>
                    ELSE <<domPrev[i]>>])
    /\ cpc = "done" =>
          \A i \in 1..Len(dom0) :
              C22_IsLabelPair(dom0, i) => Occurs(C22_CardFor(dom0[i + 1]), dom)

\* C7 as stated: heading with 优先级, list opening with '标题：T', paragraphs
\* '原因：R', '紧迫度：U', '置信度：C', '执行建议：S' give exactly one card
\* whose title is all of T (the fallback 重点事项 when T is empty), with
\* urgency U, confidence C, reason R and suggestion S.
C7_OneCardWithWholeTitle ==
    cpc = "review" =>
        LET T == Trim(DropN(domPrev[2].items[1], 2))
            R == DropN(domPrev[3].text, 2)
            U == DropN(domPrev[4].text, 2)
            C == DropN(domPrev[5].text, 2)
            S == DropN(domPrev[6].text, 2)
        IN  dom = << domPrev[1],
                     [tag |-> "DIV", class |-> "section",
                      kids |-> <<[tag |-> "DIV", class |-> "card",
                                  title |-> IF T = <<>> THEN KeyItem ELSE T,
                                  meta |-> <<[label |-> "Urgency", value |-> U],
                                             [label |-> "Confidence", value |-> C]>>,
                                  note |-> <<[label |-> "Reason", value |-> R]>>,
                                  lists |-> <<[label |-> "Suggest", value |-> <<S>>]>>,
                                  body |-> <<>>]>>] >>

HasTable(d) == Tables(d) # {}

FirstTable(d) == d[First(Tables(d))]

\* the cell of a row in a column counted from 1, empty when the row is short
C9_Cell(row, c) == IF c <= Len(row) THEN row[c] ELSE <<>>

\* C9 as stated: with the header 事件|日期|观点|影响|板块与标的|建议 every
\* body row gives one card, in row order, whose title is the row's column 0,
\* whose date is column 1 and whose impact is column 3.
C9_CardShowsCells ==
    (cpc = "priority" /\ HasTable(domPrev) /\ FirstTable(domPrev).header = StdHeader) =>
        LET t == FirstTable(domPrev)
            sec == dom[First(Tables(domPrev))]
        IN  /\ sec.tag = "DIV" /\ sec.class = "section"
            /\ Len(sec.kids) = Len(t.rows)
            /\ \A r \in 1..Len(t.rows) : Len(t.rows[r]) >= 4 =>
                  /\ sec.kids[r].title = t.rows[r][1]
                  /\ sec.kids[r].meta[1].value = t.rows[r][2]
                  /\ sec.kids[r].meta[2].value = t.rows[r][4]

\* C9 amended: for the first table of the document, when its header is
\* 事件|日期|观点|影响|板块与标的|建议, every body row gives one card, in row
\* order; the card's title is the row's column 0 when that cell is not empty
\* and the placeholder 事件 when it is empty or missing; its date and impact
\* are columns 1 and 3 when not empty and the placeholder '-' otherwise.
C9_CardShowsCellsOrPlaceholder ==
    (cpc = "priority" /\ HasTable(domPrev) /\ FirstTable(domPrev).header = StdHeader) =>
        LET t == FirstTable(domPrev)
            sec == dom[First(Tables(domPrev))]
        IN  /\ Len(dom) = Len(domPrev)
            /\ sec.tag = "DIV" /\ sec.class = "section"
            /\ Len(sec.kids) = Len(t.rows)
            /\ \A r \in 1..Len(t.rows) :
                  LET title == C9_Cell(t.rows[r], 1)
                      date == C9_Cell(t.rows[r], 2)
                      impact == C9_Cell(t.rows[r], 4)
                  IN  /\ sec.kids[r].title = IF title # <<>> THEN title ELSE <<"Evt">>
                      /\ sec.kids[r].meta[1] =
                            [label |-> "Date",
                             value |-> IF date # <<>> THEN date ELSE <<"-">>]
                      /\ sec.kids[r].meta[2] =
                            [label |-> "Effect",
                             value |-> IF impact # <<>> THEN impact ELSE <<"-">>]

C9_Witness ==
    /\ cpc = "priority" /\ HasTable(domPrev)
    /\ FirstTable(domPrev).header = StdHeader
    /\ Len(FirstTable(domPrev).rows) = 2
    /\ FirstTable(domPrev).rows[1][1] = <<>>
    /\ FirstTable(domPrev).rows[2] = FullRow
    /\ dom[1].kids[1].title = <<"Evt">>
    /\ dom[1].kids[2].title = <<"e">>

\* C16: the event-table scan converts only the first table of the document:
\* that table is replaced, at its own position, by a container of one card
\* per body row; every other node, each later table included, is the node
\* it was, a later table with its header and rows unchanged.
C16_OnlyFirstTableConverted ==
    cpc = "priority" =>
        LET tables == {i \in 1..Len(domPrev) : domPrev[i].tag = "TABLE"} IN
        IF tables = {} THEN dom = domPrev
        ELSE LET first == CHOOSE i \in tables : \A j \in tables : i <= j
             IN  /\ Len(dom) = Len(domPrev)
                 /\ dom[first].tag = "DIV" /\ dom[first].class = "section"
                 /\ Len(dom[first].kids) = Len(domPrev[first].rows)
                 /\ \A r \in 1..Len(dom[first].kids) : dom[first].kids[r].class = "card"
                 /\ \A k \in 1..Len(domPrev) : k # first => dom[k] = domPrev[k]
                 /\ \A k \in tables \ {first} :
                       /\ dom[k].tag = "TABLE"
                       /\ dom[k].header = domPrev[k].header
                       /\ dom[k].rows = domPrev[k].rows

\* a document with a table at 2 and a table at 4: the first is now a
\* container of cards, the second is still the table
C16_Witness ==
    /\ cpc = "priority" /\ Len(domPrev) = 4
    /\ {i \in 1..4 : domPrev[i].tag = "TABLE"} = {2, 4}
    /\ dom[2].tag = "DIV" /\ Len(dom[2].kids) = 1
    /\ dom[4].tag = "TABLE" /\ dom[4] = domPrev[4]

\* before, after, keyword: the scan worked under the first h3 containing the
\* keyword (what stood under it has made way for one container) and the
\* document from each later h3 containing the keyword on is as it was
C25_OnlyFirst(before, after, word) ==
    Anchors(before, word) # {} =>
        LET first == First(Anchors(before, word)) IN
        /\ Under(before, first) # {} =>
              /\ after # before
              /\ after[first + 1].tag = "DIV" /\ after[first + 1].class = "section"
        /\ \A a \in Anchors(before, word) \ {first} :
              LET n == Len(before) - a + 1 IN
              /\ Len(after) >= first + n
              /\ SubSeq(after, Len(after) - n + 1, Len(after)) = SubSeq(before, a, Len(before))

\* C25: the priority-item scan and the market-review scan each process only
\* the first level-3 heading, in document order, whose text contains their
\* keyword; the nodes under any later matching heading are left unchanged.
C25_OnlyFirstHeadingProcessed ==
    /\ cpc = "review" => C25_OnlyFirst(domPrev, dom, "Priority")
    /\ cpc = "done" => C25_OnlyFirst(domPrev, dom, "Review")

\* two headings with 优先级, each with an item list under it: the first list
\* has become a card, the second is still the list
C25_Witness ==
    /\ cpc = "review" /\ Len(domPrev) = 4
    /\ Anchors(domPrev, "Priority") = {1, 3}
    /\ IsTitleList(domPrev[2]) /\ IsTitleList(domPrev[4])
    /\ dom[2].tag = "DIV" /\ Len(dom[2].kids) = 1
    /\ dom[4] = domPrev[4]

\* the synonyms of each card field in order of preference, and the field's
\* fixed column (counted from 1)
C10_Synonyms ==
    [evt |-> <<"Evt", "EvtName">>, date |-> <<"Date", "DateWindow", "TimeWindow">>,
     view |-> <<"View", "ViewAhead">>, effect |-> <<"Effect", "MarketEffect">>,
     sector |-> <<"Sector">>, adv |-> <<"Advice", "AdviceHedge">>]

C10_Column == [evt |-> 1, date |-> 2, view |-> 3, effect |-> 4, sector |-> 5, adv |-> 6]

\* the value C10 gives a field: the cell under the first synonym the header
\* holds, whatever is in it; the cell of the fixed column only when the
\* header holds none of the synonyms
C10_Value(header, row, field) ==
    LET syn == C10_Synonyms[field]
        present == {k \in 1..Len(syn) : \E c \in 1..Len(header) : header[c] = <<syn[k]>>}
    IN  IF present = {}
        THEN C9_Cell(row, C10_Column[field])
        ELSE C9_Cell(row, CHOOSE c \in 1..Len(header) : header[c] = <<syn[First(present)]>>)

\* C10 as stated: every field of every row card holds the value C10_Value
\* resolves (shown with the script's placeholders when it is empty).
C10_HeaderNameDecides ==
    (cpc = "priority" /\ HasTable(domPrev)) =>
        LET t == FirstTable(domPrev)
            sec == dom[First(Tables(domPrev))]
            v(r, field) == C10_Value(t.header, t.rows[r], field)
        IN  \A r \in 1..Len(t.rows) :
                sec.kids[r] =
                    [tag |-> "DIV", class |-> "card",
                     title |-> Or(v(r, "evt"), <<"Evt">>),
                     meta |-> <<[label |-> "Date", value |-> Or(v(r, "date"), <<"-">>)],
                                [label |-> "Effect", value |-> Or(v(r, "effect"), <<"-">>)]>>,
                     note |-> IF v(r, "view") # <<>>
                              THEN <<[label |-> "ViewAhead", value |-> v(r, "view")]>>
                              ELSE <<>>,
                     lists |-> (IF v(r, "sector") # <<>>
                                THEN <<[label |-> "Sector", value |-> <<v(r, "sector")>>]>>
                                ELSE <<>>)
                               \o (IF v(r, "adv") # <<>>
                                   THEN <<[label |-> "Advice", value |-> <<v(r, "adv")>>]>>
                                   ELSE <<>>),
                     body |-> <<>>]

-----------------------------------------------------------------------------
(* Properties of send_md_to_notifications *)

C18_Order == <<"feishu", "dingtalk", "wework", "telegram">>

\* the channel has a destination in config
C18_HasDestination(ch) ==
    CASE ch = "feishu" -> config["FEISHU_WEBHOOK_URL"] = "set"
      [] ch = "dingtalk" -> config["DINGTALK_WEBHOOK_URL"] = "set"
      [] ch = "wework" -> config["WEWORK_WEBHOOK_URL"] = "set"
      [] ch = "telegram" -> /\ config["TELEGRAM_BOT_TOKEN"] = "set"
                            /\ config["TELEGRAM_CHAT_ID"] = "set"

\* the channels the function is past: all of them once it has returned
C18_Passed ==
    LET n == CASE npc = "feishu" -> 0 [] npc = "dingtalk" -> 1 [] npc = "wework" -> 2
               [] npc = "telegram" -> 3 [] OTHER -> 4
    IN  SubSeq(C18_Order, 1, n)

\* C18: a transport failure on one channel is recorded for that channel and
\* does not stop the fan-out: at every point the requests made are one per
\* configured channel passed so far, in the order Feishu, DingTalk, WeCom,
\* Telegram, whatever the earlier requests did; each has its own entry, the
\* status under the channel's name or the failure under its _error key; and
\* the function goes on to return.
C18_FailureDoesNotStopFanOut ==
    npc # "idle" =>
        LET due == SelectSeq(C18_Passed, C18_HasDestination) IN
        /\ [i \in 1..Len(attempts) |-> attempts[i].channel] = due
        /\ Len(results) = Len(due)
        /\ \A i \in 1..Len(due) :
              \/ results[i].key = due[i] /\ results[i].value \in StatusCodes
              \/ results[i].key = ErrorKey[due[i]] /\ results[i].value = "timeout"

\* the first request failed, its failure is recorded, and three more
\* requests were made before the function returned
C18_Witness ==
    /\ npc = "returned"
    /\ Len(attempts) = 4
    /\ results[1].key = "feishu_error" /\ results[1].value = "timeout"
    /\ results[4].key = "telegram"

\* the channels with no destination: a key of theirs is missing from config
\* or holds the empty string
C21_WithoutDestination == {ch \in {"feishu", "dingtalk", "wework", "telegram"} :
                             ~C18_HasDestination(ch)}

\* C21 as stated: with a channel's destination absent from the configuration
\* the operation fails with a configuration-missing error; it never
\* completes normally.
C21_MissingDestinationFails ==
    npc = "returned" => C21_WithoutDestination = {}

\* C21 amended: a channel whose destination is absent from the configuration
\* (or empty) is skipped: no request is made for it, the result has no entry
\* for it, no error is raised and the operation completes normally; with no
\* destination at all it returns the empty result.
C21_MissingDestinationSkipped ==
    /\ npc \in {"idle", "feishu", "dingtalk", "wework", "telegram", "returned"}
    /\ \A ch \in C21_WithoutDestination :
          /\ \A i \in 1..Len(attempts) : attempts[i].channel # ch
          /\ \A i \in 1..Len(results) :
                results[i].key # ch /\ results[i].key # ErrorKey[ch]
    /\ (npc = "returned" /\ Cardinality(C21_WithoutDestination) = 4) => results = <<>>

\* the operation has returned with Feishu absent, DingTalk empty and only a
\* chat id for Telegram: one request, for WeCom
C21_Witness ==
    /\ npc = "returned"
    /\ config["FEISHU_WEBHOOK_URL"] = "absent"
    /\ config["DINGTALK_WEBHOOK_URL"] = "empty"
    /\ config["TELEGRAM_BOT_TOKEN"] = "absent" /\ config["TELEGRAM_CHAT_ID"] = "set"
    /\ Len(attempts) = 1 /\ attempts[1].channel = "wework"
    /\ Len(results) = 1

C24_Requests(ch) == {i \in 1..Len(attempts) : attempts[i].channel = ch}

C24_Entries(key) == {i \in 1..Len(results) : results[i].key = key}

\* C24: when send_md_to_notifications has returned, each configured channel
\* (Telegram needs both the bot token and the chat id) had exactly one
\* request attempted and has exactly one of '<channel>' (the status code,
\* whatever its value) and '<channel>_error' in the result, never both; a
\* channel that is not configured had no request and has neither key.
C24_OneOutcomePerChannel ==
    npc = "returned" =>
        \A ch \in {"feishu", "dingtalk", "wework", "telegram"} :
            IF C18_HasDestination(ch)
            THEN /\ Cardinality(C24_Requests(ch)) = 1
                 /\ Cardinality(C24_Entries(ch) \cup C24_Entries(ErrorKey[ch])) = 1
                 /\ \A i \in C24_Entries(ch) : results[i].value \in StatusCodes
            ELSE /\ C24_Requests(ch) = {}
                 /\ C24_Entries(ch) = {} /\ C24_Entries(ErrorKey[ch]) = {}

\* Feishu raised, DingTalk answered 500, WeCom has no URL and Telegram has a
\* token without a chat id
C24_Witness ==
    /\ npc = "returned"
    /\ config["FEISHU_WEBHOOK_URL"] = "set" /\ config["DINGTALK_WEBHOOK_URL"] = "set"
    /\ config["WEWORK_WEBHOOK_URL"] = "absent"
    /\ config["TELEGRAM_BOT_TOKEN"] = "set" /\ config["TELEGRAM_CHAT_ID"] = "empty"
    /\ Len(attempts) = 2 /\ Len(results) = 2
    /\ results[1].key = "feishu_error"
    /\ results[2].key = "dingtalk" /\ results[2].value = 500

-----------------------------------------------------------------------------
(* Properties of call_deepseek *)

\* the function is over: it returned or raised
C19_Over == dpc \in {"returned", "raised"}

\* the request itself failed (no response came back)
C19_NoResponse == answer.raised /\ answer.e.type = "RequestException"

\* the response JSON has choices[0].message.content, a text
C19_HasContent(data) ==
    /\ "choices" \in DOMAIN data
    /\ data.choices # <<>>
    /\ data.choices[1].message.content.type = "str"

C19_ContentOf(data) == data.choices[1].message.content.s

\* a text without its leading and trailing whitespace
C19_Trimmed(t) == LStrip(RStrip(t))

-----------------------------------------------------------------------------
(* Properties of load_deepseek_api_key *)

C20_Names == {"deepseek_API_KEY", "DEEPSEEK_API_KEY"}

C20_Trimmed(t) == LStrip(RStrip(t))

\* the line, trimmed, is no comment and has the form name=value with one of
\* the two names
C20_Assigns(line) ==
    LET t == C20_Trimmed(line) IN
    /\ t # <<>> /\ t[1] # "#"
    /\ \E i \in 1..Len(t) :
          /\ t[i] = "=" /\ \A j \in 1..(i - 1) : t[j] # "="
          /\ \E n \in C20_Names : C20_Trimmed(SubSeq(t, 1, i - 1)) = <<n>>

C20_ValueOf(line) ==
    LET t == C20_Trimmed(line)
        i == CHOOSE i \in 1..Len(t) : t[i] = "=" /\ \A j \in 1..(i - 1) : t[j] # "="
    IN  C20_Trimmed(SubSeq(t, i + 1, Len(t)))

\* the non-empty values the .env file provides under either name
C20_FileValues ==
    IF env_file.exists /\ env_file.readable
    THEN {C20_ValueOf(env_file.lines[i]) :
             i \in {j \in 1..Len(env_file.lines) :
                       /\ C20_Assigns(env_file.lines[j])
                       /\ C20_ValueOf(env_file.lines[j]) # <<>>}}
    ELSE {}

\* the non-empty values the environment provides under either name
C20_EnvironValues ==
    {environ[n].s : n \in {m \in C20_Names : ~environ[m].is_none /\ environ[m].s # <<>>}}

\* C20 as stated: a key is returned whenever the .env file or the
\* environment provides a non-empty value under either name, a value of the
\* .env file when it provides one and a value of the environment otherwise;
\* the missing-key error is raised only when neither provides one.
C20_KeyWheneverProvided ==
    kpc \in {"returned", "raised"} =>
        /\ kpc = "raised" <=> (C20_FileValues = {} /\ C20_EnvironValues = {})
        /\ (kpc = "returned" /\ C20_FileValues # {}) => api_key.s \in C20_FileValues
        /\ (kpc = "returned" /\ C20_FileValues = {}) => api_key.s \in C20_EnvironValues

-----------------------------------------------------------------------------
(* Properties of main *)

\* the input text can be had: the override is not blank, or the target file
\* is there and, when a line is asked for, has that line
C26_TextCanBeRead ==
    \/ \E i \in 1..Len(override) : override[i] # " "
    \/ /\ target_file.exists
       /\ \/ target_line_number.is_none
          \/ /\ target_line_number.n >= 1
             /\ target_line_number.n <= Len(SplitLines(target_file.text))

\* C26: in main the steps run strictly in the order load key, obtain text,
\* call API, save output: no API request is made when the key is missing or
\* the input text cannot be read, at most one request is made and it carries
\* the key and the text obtained before it, and the output file is written
\* only after call_deepseek has returned a result, which is what it then
\* holds; it is never written after a failed call.
C26_StepsInOrder ==
    apc # "idle" =>
        /\ (kpc = "raised" \/ ~C26_TextCanBeRead) => sent = <<>>
        /\ text_to_analyze # NoValue => kpc = "returned"
        /\ sent # <<>> =>
              /\ kpc = "returned" /\ text_to_analyze # NoValue
              /\ Len(sent) = 1
              /\ sent[1].Authorization = <<"Bearer", api_key.s>>
              /\ Text(sent[1].payload.messages[2].content[2]) = text_to_analyze
        /\ out_file # NoValue =>
              /\ Len(sent) = 1
              /\ dpc = "returned" /\ ~answer.raised
              /\ out_file = answer.value
        /\ dpc = "raised" => out_file = NoValue
        /\ apc = "done" <=> out_file # NoValue
        /\ apc = "raised" =>
              \/ kpc = "raised"
              \/ kpc = "returned" /\ ~C26_TextCanBeRead
              \/ dpc = "raised"

\* the key came from the environment, the text from line 2 of the target
\* file, the API answered and the answer is in the output file
C26_Witness ==
    /\ apc = "done"
    /\ ~env_file.exists /\ api_key = Some(<<"k3">>)
    /\ override = <<" ">> /\ target_line_number = LineNumber(2)
    /\ text_to_analyze = Text(<<"u">>)
    /\ Len(sent) = 1
    /\ out_file = Text(<<"a">>)

====
